---- MODULE Spec2Model ----
(***************************************************************************)
(* Dazos CFO Copilot backend (src/backend/main.py): the ARR aggregation    *)
(* over live records and over EOD snapshot payloads, the product           *)
(* classifier, the copilot's intent dispatch and date resolution, and the  *)
(* scheduled Salesforce resync / EOD snapshot loop.                        *)
(*                                                                         *)
(* Representation.  A Python str whose characters the code inspects        *)
(* (strip, lower, split, substring tests) is a sequence of one-character   *)
(* strings.  A str the code only compares for equality (ids, stage and     *)
(* account names) is a TLA+ string.  Amounts are integers in mils          *)
(* (1/1000 of a dollar) with exact arithmetic; round(x, 2) rounds to a     *)
(* multiple of 10 mils, ties to even, as Python does on exact ties.  A     *)
(* date is <<year, month, day>>.                                           *)
(***************************************************************************)
EXTENDS Integers, Sequences, FiniteSets, TLC

VARIABLES accounts, opportunities, line_items, eod_snapshots, now,
          last_sync_hour, last_eod_date, sync_log, eod_log, last_poll, loop,
          eod_read, response

vars == <<accounts, opportunities, line_items, eod_snapshots, now,
          last_sync_hour, last_eod_date, sync_log, eod_log, last_poll, loop,
          eod_read, response>>

----------------------------------------------------------------------------
(* Python values *)

\* None in a field that holds a TLA+ string (no record holds this text).
None == "<None>"

\* None in a field that holds a character sequence.
NoneStr == <<"<None>">>

\* None in a field that holds a date.
NoneDate == <<>>

\* Python truthiness of an Optional[str] held as a TLA+ string: None and "" are falsy.
Truthy(s) == s # None /\ s # ""

\* `s or ""` for a character sequence.
OrEmpty(s) == IF s = NoneStr THEN <<>> ELSE s

Range(f) == {f[i] : i \in DOMAIN f}

\* A local variable: Body at the value v, which is computed once.
Bind(v, Body(_)) == CHOOSE result \in {Body(x) : x \in {v}} : TRUE

----------------------------------------------------------------------------
(* str methods *)

WHITESPACE == {" ", "\t"}

UPPERCASE == <<"A","B","C","D","E","F","G","H","I","J","K","L","M","N","O","P","Q","R","S","T","U","V","W","X","Y","Z">>

LOWERCASE == <<"a","b","c","d","e","f","g","h","i","j","k","l","m","n","o","p","q","r","s","t","u","v","w","x","y","z">>

LowerChar(c) ==
    IF \E i \in DOMAIN UPPERCASE : UPPERCASE[i] = c
    THEN LOWERCASE[CHOOSE i \in DOMAIN UPPERCASE : UPPERCASE[i] = c]
    ELSE c

\* str.lower()
lower(s) == [i \in 1..Len(s) |-> LowerChar(s[i])]

RECURSIVE lstrip(_)
lstrip(s) == IF s # <<>> /\ Head(s) \in WHITESPACE THEN lstrip(Tail(s)) ELSE s

RECURSIVE rstrip(_)
rstrip(s) ==
    IF s # <<>> /\ s[Len(s)] \in WHITESPACE THEN rstrip(SubSeq(s, 1, Len(s) - 1)) ELSE s

\* str.strip()
strip(s) == rstrip(lstrip(s))

\* `needle in hay`
contains(needle, hay) ==
    \E i \in 0..(Len(hay) - Len(needle)) : SubSeq(hay, i + 1, i + Len(needle)) = needle

\* str.split(): the maximal runs of non-whitespace characters.
RECURSIVE split(_)
split(s) ==
    LET t == lstrip(s) IN
    IF t = <<>> THEN <<>>
    ELSE LET n == IF \E i \in 1..Len(t) : t[i] \in WHITESPACE
                  THEN (CHOOSE i \in 1..Len(t) :
                            t[i] \in WHITESPACE /\ \A j \in 1..(i - 1) : t[j] \notin WHITESPACE) - 1
                  ELSE Len(t)
         IN <<SubSeq(t, 1, n)>> \o split(SubSeq(t, n + 1, Len(t)))

\* " ".join(words)
RECURSIVE join_space(_)
join_space(words) ==
    IF words = <<>> THEN <<>>
    ELSE IF Len(words) = 1 THEN words[1]
    ELSE words[1] \o <<" ">> \o join_space(Tail(words))

\* s.rsplit(sep, 1)[-1]: what follows the last occurrence of sep (s itself if none).
rsplit_last(s, sep) ==
    LET hits == {i \in 0..(Len(s) - Len(sep)) : SubSeq(s, i + 1, i + Len(sep)) = sep} IN
    IF hits = {} THEN s
    ELSE LET i == CHOOSE h \in hits : \A g \in hits : g <= h
         IN SubSeq(s, i + Len(sep) + 1, Len(s))

----------------------------------------------------------------------------
(* Product classifier *)

ARR_MULTIPLIER == 12

ARR_PRODUCT_EXCLUDE ==
    { <<"i","v","e","r","i","f","y"," ","m","o","n","t","h","l","y"," ","c","r","e","d","i","t","s">>,
      <<"v","e","r","i","f","y"," ","m","o","n","t","h","l","y"," ","c","r","e","d","i","t","s">>,
      <<"k","i","p","u"," ","a","p","i">> }

\* The canonical columns, named by their display text.
ARR_PRODUCT_COLUMNS ==
    << "CRM Platform",
       "CRM Billing Platform",
       "Add. CRM Seats",
       "MR Platform",
       "IQ Platform",
       "Add. MR/ IQ Locations",
       "iCampaign Platform",
       "Premium Support" >>

\* p.strip().lower() of each canonical column, in ARR_PRODUCT_COLUMNS order.
ARR_PRODUCT_NORMALIZED ==
    << [key |-> <<"c","r","m"," ","p","l","a","t","f","o","r","m">>,
        canonical |-> "CRM Platform"],
       [key |-> <<"c","r","m"," ","b","i","l","l","i","n","g"," ","p","l","a","t","f","o","r","m">>,
        canonical |-> "CRM Billing Platform"],
       [key |-> <<"a","d","d","."," ","c","r","m"," ","s","e","a","t","s">>,
        canonical |-> "Add. CRM Seats"],
       [key |-> <<"m","r"," ","p","l","a","t","f","o","r","m">>,
        canonical |-> "MR Platform"],
       [key |-> <<"i","q"," ","p","l","a","t","f","o","r","m">>,
        canonical |-> "IQ Platform"],
       [key |-> <<"a","d","d","."," ","m","r","/"," ","i","q"," ","l","o","c","a","t","i","o","n","s">>,
        canonical |-> "Add. MR/ IQ Locations"],
       [key |-> <<"i","c","a","m","p","a","i","g","n"," ","p","l","a","t","f","o","r","m">>,
        canonical |-> "iCampaign Platform"],
       [key |-> <<"p","r","e","m","i","u","m"," ","s","u","p","p","o","r","t">>,
        canonical |-> "Premium Support"] >>

\* Raw Salesforce product names, in insertion order.
ARR_SF_TO_CANONICAL ==
    << [key |-> <<"d","a","z","o","s"," ","c","r","m"," ","p","l","a","t","f","o","r","m"," ","(","l","e","g","a","c","y",")">>,
        canonical |-> "CRM Platform"],
       [key |-> <<"d","a","z","o","s"," ","c","r","m"," ","p","l","a","t","f","o","r","m"," ","(","i","n","c","l","u","d","e","s"," ","5"," ","s","e","a","t","s",")">>,
        canonical |-> "CRM Platform"],
       [key |-> <<"b","i","l","l","i","n","g"," ","c","o","m","p","a","n","y"," ","c","r","m"," ","p","l","a","t","f","o","r","m"," ","(","i","n","c","l","u","d","e","s"," ","5"," ","s","e","a","t","s",")">>,
        canonical |-> "CRM Billing Platform"],
       [key |-> <<"a","d","d","i","t","i","o","n","a","l"," ","c","r","m"," ","s","e","a","t","s">>,
        canonical |-> "Add. CRM Seats"],
       [key |-> <<"m","a","r","k","e","t","i","n","g"," ","r","e","p","o","r","t","s"," ","p","l","a","t","f","o","r","m"," ","f","e","e"," ","(","i","n","c","l","u","d","e","s"," ","1"," ","e","i","n",")">>,
        canonical |-> "MR Platform"],
       [key |-> <<"i","q"," ","p","l","a","t","f","o","r","m"," ","f","e","e"," ","(","i","n","c","l","u","d","e","s"," ","1"," ","e","i","n",")">>,
        canonical |-> "IQ Platform"],
       [key |-> <<"a","d","d","i","t","i","o","n","a","l"," ","i","q","/","m","r"," ","e","i","n","s">>,
        canonical |-> "Add. MR/ IQ Locations"],
       [key |-> <<"a","d","d","i","t","i","o","n","a","l"," ","i","q","m","r"," ","e","i","n","s">>,
        canonical |-> "Add. MR/ IQ Locations"] >>

SEPARATOR == <<" ","-"," ">>

normalized_product_name(product_name) ==
    IF product_name = NoneStr \/ product_name = <<>> \/ strip(product_name) = <<>> THEN <<>>
    ELSE LET s == strip(product_name) IN
         IF contains(SEPARATOR, s)
         THEN LET last == strip(rsplit_last(s, SEPARATOR)) IN
              IF last # <<>> THEN last ELSE s
         ELSE s

\* The exclusion test without the whitespace and letter-case normalisation.
is_arr_excluded_product_verbatim(product_name) == product_name \in ARR_PRODUCT_EXCLUDE

is_arr_excluded_product(product_name) ==
    IF product_name = NoneStr \/ product_name = <<>> \/ strip(product_name) = <<>> THEN FALSE
    ELSE LET key == lower(strip(join_space(split(product_name)))) IN
         IF key = <<>> THEN FALSE
         ELSE IF key \in ARR_PRODUCT_EXCLUDE THEN TRUE
         ELSE \E exc \in ARR_PRODUCT_EXCLUDE : contains(exc, key)

\* The first entry of an ordered table that matches, or None.
FirstMatch(table, Matches(_)) ==
    IF \E i \in DOMAIN table : Matches(table[i].key)
    THEN table[CHOOSE i \in DOMAIN table :
                   Matches(table[i].key) /\ \A j \in 1..(i - 1) : ~Matches(table[j].key)].canonical
    ELSE None

match_arr_product(sf_product_name) ==
    IF sf_product_name = NoneStr \/ sf_product_name = <<>> \/ strip(sf_product_name) = <<>>
    THEN None
    ELSE LET key == lower(strip(sf_product_name))
             Exact(k) == k = key
             Either(k) == contains(k, key) \/ contains(key, k)
         IN IF FirstMatch(ARR_SF_TO_CANONICAL, Exact) # None
            THEN FirstMatch(ARR_SF_TO_CANONICAL, Exact)
            ELSE IF FirstMatch(ARR_SF_TO_CANONICAL, Either) # None
            THEN FirstMatch(ARR_SF_TO_CANONICAL, Either)
            ELSE IF FirstMatch(ARR_PRODUCT_NORMALIZED, Exact) # None
            THEN FirstMatch(ARR_PRODUCT_NORMALIZED, Exact)
            ELSE FirstMatch(ARR_PRODUCT_NORMALIZED, Either)

CLOSED_STAGES == {"Closed Won", "Closed Lost"}

DEFAULT_SEGMENT == <<"S","M","B","/"," ","M","M">>

RENEWAL == <<"r","e","n","e","w","a","l">>

is_renewal_record_type(name) == lower(strip(OrEmpty(name))) = RENEWAL

----------------------------------------------------------------------------
(* The classifier's results on the product names of the bounded inputs,      *)
(* computed once: the aggregation loops look names up here.                  *)

ProductNameInputs ==
    { NoneStr,
      <<"P","r","e","m","i","u","m"," ","S","u","p","p","o","r","t">>,
      <<"K","I","P","U"," "," "," ","a","p","i">>,
      <<"D","a","z","o","s"," ","C","R","M"," ","P","l","a","t","f","o","r","m"," ","(","L","e","g","a","c","y",")">>,
      <<"K","i","p","u"," ","A","P","I"," ","-"," ","S","e","t","u","p">>,
      <<"W","i","d","g","e","t">> }

ClassifiedNames ==
    ProductNameInputs \cup {normalized_product_name(n) : n \in ProductNameInputs}

Classified ==
    [n \in ClassifiedNames |->
        [normalized |-> normalized_product_name(n),
         excluded |-> is_arr_excluded_product(n),
         canonical |-> match_arr_product(n)]]

NormalizedName(n) ==
    IF n \in ClassifiedNames THEN Classified[n].normalized ELSE normalized_product_name(n)

IsExcluded(n) ==
    IF n \in ClassifiedNames THEN Classified[n].excluded ELSE is_arr_excluded_product(n)

MatchedColumn(n) ==
    IF n \in ClassifiedNames THEN Classified[n].canonical ELSE match_arr_product(n)

----------------------------------------------------------------------------
(* Amounts and dates *)

\* round(x, 2) on an amount in mils: the nearest multiple of 10, ties to even.
round2(x) ==
    LET q == x \div 10
        r == x % 10
    IN IF r < 5 THEN q * 10
       ELSE IF r > 5 THEN (q + 1) * 10
       ELSE IF q % 2 = 0 THEN q * 10 ELSE (q + 1) * 10

RECURSIVE SumSeq(_)
SumSeq(s) == IF s = <<>> THEN 0 ELSE Head(s) + SumSeq(Tail(s))

\* date.__gt__
DateAfter(a, b) ==
    \/ a[1] > b[1]
    \/ a[1] = b[1] /\ a[2] > b[2]
    \/ a[1] = b[1] /\ a[2] = b[2] /\ a[3] > b[3]

DIGITS == <<"0","1","2","3","4","5","6","7","8","9">>

DigitChar(n) == DIGITS[n + 1]

DigitValue(c) == (CHOOSE i \in DOMAIN DIGITS : DIGITS[i] = c) - 1

IsDigit(c) == \E i \in DOMAIN DIGITS : DIGITS[i] = c

\* date.isoformat(): "YYYY-MM-DD"
isoformat(d) ==
    << DigitChar(d[1] \div 1000), DigitChar((d[1] \div 100) % 10),
       DigitChar((d[1] \div 10) % 10), DigitChar(d[1] % 10), "-",
       DigitChar(d[2] \div 10), DigitChar(d[2] % 10), "-",
       DigitChar(d[3] \div 10), DigitChar(d[3] % 10) >>

IsLeap(y) == (y % 4 = 0 /\ y % 100 # 0) \/ y % 400 = 0

\* calendar.monthrange(year, month)[1]
DaysInMonth(y, m) ==
    IF m = 2 THEN (IF IsLeap(y) THEN 29 ELSE 28)
    ELSE IF m \in {4, 6, 9, 11} THEN 30 ELSE 31

\* Whether date(y, m, d) is a date (it raises ValueError otherwise).
ValidDate(y, m, d) == y >= 1 /\ m \in 1..12 /\ d >= 1 /\ d <= DaysInMonth(y, m)

\* datetime.fromisoformat(s.replace("Z", "+00:00")).date() on a snapshot's
\* close_date text; NoneDate where the code catches ValueError.
date_fromisoformat(s) ==
    IF /\ Len(s) = 10
       /\ s[5] = "-" /\ s[8] = "-"
       /\ \A i \in {1, 2, 3, 4, 6, 7, 9, 10} : IsDigit(s[i])
    THEN LET y == DigitValue(s[1]) * 1000 + DigitValue(s[2]) * 100
                  + DigitValue(s[3]) * 10 + DigitValue(s[4])
             m == DigitValue(s[6]) * 10 + DigitValue(s[7])
             d == DigitValue(s[9]) * 10 + DigitValue(s[10])
         IN IF ValidDate(y, m, d) THEN <<y, m, d>> ELSE NoneDate
    ELSE NoneDate

----------------------------------------------------------------------------
(* ARR aggregation over live records *)

\* The placeholder the rows show for a missing account name (U+2014 in the source).
EM_DASH == "--"

\* list(ARR_PRODUCT_COLUMNS) + ["Other"]
PRODUCTS == ARR_PRODUCT_COLUMNS \o <<"Other">>

\* {p: 0.0 for p in products}
ZeroCells == [p \in Range(PRODUCTS) |-> 0]

\* A dict in insertion order is a sequence of [key, value] entries.
DictHas(d, k) == \E i \in DOMAIN d : d[i].key = k

DictGet(d, k) == d[CHOOSE i \in DOMAIN d : d[i].key = k].value

DictSet(d, k, v) ==
    IF DictHas(d, k)
    THEN [i \in DOMAIN d |-> IF d[i].key = k THEN [key |-> k, value |-> v] ELSE d[i]]
    ELSE Append(d, [key |-> k, value |-> v])

\* An insertion that would put a row before the rows of equal total_arr.
RECURSIVE InsertRowBeforeTies(_, _)
InsertRowBeforeTies(sorted, row) ==
    IF sorted = <<>> THEN <<row>>
    ELSE IF -row.total_arr <= -Head(sorted).total_arr
    THEN <<row>> \o sorted
    ELSE <<Head(sorted)>> \o InsertRowBeforeTies(Tail(sorted), row)

\* rows.sort(key=lambda x: -x["total_arr"]): a stable sort, greatest first.
RECURSIVE InsertRow(_, _)
InsertRow(sorted, row) ==
    IF sorted = <<>> THEN <<row>>
    ELSE IF -row.total_arr < -Head(sorted).total_arr
    THEN <<row>> \o sorted
    ELSE <<Head(sorted)>> \o InsertRow(Tail(sorted), row)

RECURSIVE SortRows(_)
SortRows(rows) ==
    IF rows = <<>> THEN <<>>
    ELSE InsertRow(SortRows(SubSeq(rows, 1, Len(rows) - 1)), rows[Len(rows)])

\* The opportunity a dict comprehension keeps for an sf_id: the last one listed.
OppOf(opps, sf_id) ==
    opps[CHOOSE i \in DOMAIN opps :
             opps[i].sf_id = sf_id /\ \A j \in DOMAIN opps : opps[j].sf_id = sf_id => j <= i]

\* (o.account_id, o.account_name or None)
AccountKey(o) == <<o.account_id, IF Truthy(o.account_name) THEN o.account_name ELSE None>>

\* Lines 939-945: stage_name IS NOT NULL AND stage_name NOT IN CLOSED_STAGES, then renewals.
live_renewal_opps(opps) ==
    SelectSeq(opps, LAMBDA o : /\ o.stage_name # None
                               /\ o.stage_name \notin CLOSED_STAGES
                               /\ is_renewal_record_type(o.record_type_name))

\* Lines 960-973: the loop over the line items of the renewal opportunities.
RECURSIVE live_by_account_product(_, _, _)
live_by_account_product(lines, renewal_opps, by_account_product) ==
    IF lines = <<>> THEN by_account_product
    ELSE LET li == Head(lines)
             acc == AccountKey(OppOf(renewal_opps, li.opportunity_sf_id))
             raw == NormalizedName(li.product_name)
             canonical == IF MatchedColumn(raw) # None
                          THEN MatchedColumn(raw) ELSE "Other"
             cells == IF DictHas(by_account_product, acc)
                      THEN DictGet(by_account_product, acc) ELSE ZeroCells
         IN IF \/ IsExcluded(raw)
               \/ IsExcluded(li.product_name)
               \/ raw = <<>>
            THEN live_by_account_product(Tail(lines), renewal_opps, by_account_product)
            ELSE live_by_account_product(Tail(lines), renewal_opps,
                     DictSet(by_account_product, acc,
                             [cells EXCEPT ![canonical] = @ + li.total_price]))

\* Lines 975-979: latest close_date per account key.
RECURSIVE live_account_end_date(_, _)
live_account_end_date(renewal_opps, account_end_date) ==
    IF renewal_opps = <<>> THEN account_end_date
    ELSE LET o == Head(renewal_opps)
             key == AccountKey(o)
         IN IF \/ ~DictHas(account_end_date, key)
               \/ /\ o.close_date # NoneDate
                  /\ \/ DictGet(account_end_date, key) = NoneDate
                     \/ DateAfter(o.close_date, DictGet(account_end_date, key))
            THEN live_account_end_date(Tail(renewal_opps),
                                       DictSet(account_end_date, key, o.close_date))
            ELSE live_account_end_date(Tail(renewal_opps), account_end_date)

\* by_product_arr = {p: round(mrr * ARR_MULTIPLIER, 2) for p, mrr in by_product.items()}
by_product_arr(by_product) ==
    [p \in DOMAIN by_product |-> round2(by_product[p] * ARR_MULTIPLIER)]

\* The row total over the canonical columns only, leaving "Other" out.
row_total_arr_canonical(arr) ==
    round2(SumSeq([i \in DOMAIN ARR_PRODUCT_COLUMNS |-> arr[ARR_PRODUCT_COLUMNS[i]]]))

\* total_arr = round(sum(by_product_arr.values()), 2)
row_total_arr(arr) == round2(SumSeq([i \in DOMAIN PRODUCTS |-> arr[PRODUCTS[i]]]))

\* Lines 999-1000: the row's segment.
live_segment(accs, aid) ==
    LET seg == IF Truthy(aid) /\ \E i \in DOMAIN accs : accs[i].sf_id = aid
               THEN accs[CHOOSE i \in DOMAIN accs : accs[i].sf_id = aid].segment
               ELSE NoneStr
    IN IF strip(OrEmpty(seg)) # <<>> THEN strip(OrEmpty(seg)) ELSE DEFAULT_SEGMENT

\* Lines 993-1009: one row per entry of by_account_product, in insertion order.
live_rows(accs, by_account_product, account_end_date) ==
    [i \in DOMAIN by_account_product |->
        LET key == by_account_product[i].key
            arr == by_product_arr(by_account_product[i].value)
            end_d == IF DictHas(account_end_date, key)
                     THEN DictGet(account_end_date, key) ELSE NoneDate
        IN [account_id |-> key[1],
            account_name |-> IF Truthy(key[2]) THEN key[2] ELSE EM_DASH,
            segment |-> live_segment(accs, key[1]),
            subscription_end_date |-> IF end_d # NoneDate THEN isoformat(end_d) ELSE NoneStr,
            by_product |-> arr,
            total_arr |-> row_total_arr(arr)]]

\* total_by_product[p] accumulated over the rows, then rounded (lines 995-996, 1011).
column_totals(rows) ==
    [p \in Range(PRODUCTS) |-> round2(SumSeq([i \in DOMAIN rows |-> rows[i].by_product[p]]))]

\* grand_total accumulated over the rows, then rounded (lines 998, 1016).
rows_grand_total(rows) == round2(SumSeq([i \in DOMAIN rows |-> rows[i].total_arr]))

\* Lines 1011-1017: the result built from the rows, sorted by total_arr.
arr_result(rows) ==
    [products |-> PRODUCTS,
     rows |-> SortRows(rows),
     total_by_product |-> column_totals(rows),
     grand_total |-> rows_grand_total(rows)]

\* Lines 946-1009: the rows from the renewal opportunities and the line items.
live_result(accs, renewal_opps, lines) ==
    IF renewal_opps = <<>>
    THEN [products |-> <<>>, rows |-> <<>>, total_by_product |-> <<>>, grand_total |-> 0]
    ELSE arr_result(
             live_rows(accs,
                       live_by_account_product(
                           SelectSeq(lines, LAMBDA li :
                               \E i \in DOMAIN renewal_opps :
                                   renewal_opps[i].sf_id = li.opportunity_sf_id),
                           renewal_opps, <<>>),
                       live_account_end_date(renewal_opps, <<>>)))

get_arr_by_account_product_data(accs, opps, lines) ==
    live_result(accs, live_renewal_opps(opps), lines)

----------------------------------------------------------------------------
(* EOD snapshot payload and the aggregation over it *)

\* Lines 706-713: the payload built from the rows of the three tables.  Only
\* the fields the aggregation reads are kept; json.dumps / json.loads returns
\* these str, float and None values unchanged, so data_json holds the payload.
snapshot_payload(accs, opps, lines) ==
    [accounts |->
        [i \in DOMAIN accs |->
            [sf_id |-> accs[i].sf_id,
             segment |-> IF strip(OrEmpty(accs[i].segment)) # <<>>
                         THEN strip(OrEmpty(accs[i].segment)) ELSE DEFAULT_SEGMENT]],
     opportunities |->
        [i \in DOMAIN opps |->
            [sf_id |-> opps[i].sf_id,
             stage_name |-> opps[i].stage_name,
             record_type_name |-> opps[i].record_type_name,
             account_id |-> opps[i].account_id,
             account_name |-> opps[i].account_name,
             close_date |-> IF opps[i].close_date # NoneDate
                            THEN isoformat(opps[i].close_date) ELSE NoneStr]],
     opportunity_line_items |->
        [i \in DOMAIN lines |->
            [opportunity_sf_id |-> lines[i].opportunity_sf_id,
             product_name |-> lines[i].product_name,
             total_price |-> lines[i].total_price]]]

\* Lines 1025-1026: (stage_name or "") not in CLOSED_STAGES, then renewals.
snapshot_renewal_opps(opps) ==
    SelectSeq(opps, LAMBDA o :
        /\ (IF Truthy(o.stage_name) THEN o.stage_name ELSE "") \notin CLOSED_STAGES
        /\ lower(strip(OrEmpty(o.record_type_name))) = RENEWAL)

\* Lines 1037-1052: the loop over the payload's line items.
RECURSIVE snapshot_by_account_product(_, _, _)
snapshot_by_account_product(lines, renewal_opps, by_account_product) ==
    IF lines = <<>> THEN by_account_product
    ELSE LET li == Head(lines)
             renewal_sf_ids == {renewal_opps[i].sf_id : i \in DOMAIN renewal_opps}
         IN IF li.opportunity_sf_id \notin renewal_sf_ids
            THEN snapshot_by_account_product(Tail(lines), renewal_opps, by_account_product)
            ELSE LET acc == AccountKey(OppOf(renewal_opps, li.opportunity_sf_id))
                     raw == NormalizedName(li.product_name)
                     canonical == IF MatchedColumn(raw) # None
                                  THEN MatchedColumn(raw) ELSE "Other"
                     cells == IF DictHas(by_account_product, acc)
                              THEN DictGet(by_account_product, acc) ELSE ZeroCells
                 IN IF \/ IsExcluded(raw)
                       \/ IsExcluded(li.product_name)
                       \/ raw = <<>>
                    THEN snapshot_by_account_product(Tail(lines), renewal_opps,
                                                     by_account_product)
                    ELSE snapshot_by_account_product(Tail(lines), renewal_opps,
                             DictSet(by_account_product, acc,
                                     [cells EXCEPT ![canonical] = @ + li.total_price]))

\* Lines 1054-1063: latest parsed close_date per account key.
RECURSIVE snapshot_account_end_date(_, _)
snapshot_account_end_date(renewal_opps, account_end_date) ==
    IF renewal_opps = <<>> THEN account_end_date
    ELSE LET o == Head(renewal_opps)
             key == AccountKey(o)
             end_d == IF o.close_date # NoneStr /\ o.close_date # <<>>
                      THEN date_fromisoformat(o.close_date) ELSE NoneDate
         IN IF \/ ~DictHas(account_end_date, key)
               \/ /\ end_d # NoneDate
                  /\ \/ DictGet(account_end_date, key) = NoneDate
                     \/ DateAfter(end_d, DictGet(account_end_date, key))
            THEN snapshot_account_end_date(Tail(renewal_opps),
                                           DictSet(account_end_date, key, end_d))
            ELSE snapshot_account_end_date(Tail(renewal_opps), account_end_date)

\* Lines 1034 and 1074: account_segment.get(aid) if aid else DEFAULT_SEGMENT.
snapshot_segment(accounts_list, aid) ==
    IF ~Truthy(aid) THEN DEFAULT_SEGMENT
    ELSE IF \E i \in DOMAIN accounts_list : accounts_list[i].sf_id = aid
    THEN LET a == accounts_list[CHOOSE i \in DOMAIN accounts_list :
                      /\ accounts_list[i].sf_id = aid
                      /\ \A j \in DOMAIN accounts_list :
                             accounts_list[j].sf_id = aid => j <= i]
         IN IF strip(OrEmpty(a.segment)) # <<>>
            THEN strip(OrEmpty(a.segment)) ELSE DEFAULT_SEGMENT
    ELSE NoneStr

\* Lines 1068-1083: one row per entry of by_account_product, in insertion order.
snapshot_rows(accounts_list, by_account_product, account_end_date) ==
    [i \in DOMAIN by_account_product |->
        LET key == by_account_product[i].key
            arr == by_product_arr(by_account_product[i].value)
            end_d == IF DictHas(account_end_date, key)
                     THEN DictGet(account_end_date, key) ELSE NoneDate
        IN [account_id |-> key[1],
            account_name |-> IF Truthy(key[2]) THEN key[2] ELSE EM_DASH,
            segment |-> snapshot_segment(accounts_list, key[1]),
            subscription_end_date |-> IF end_d # NoneDate THEN isoformat(end_d) ELSE NoneStr,
            by_product |-> arr,
            total_arr |-> row_total_arr(arr)]]

\* Lines 1028-1083: the rows from the payload's renewal opportunities.
snapshot_result(payload, renewal_opps) ==
    IF renewal_opps = <<>>
    THEN [products |-> PRODUCTS, rows |-> <<>>, total_by_product |-> <<>>,
          grand_total |-> 0]
    ELSE arr_result(
             snapshot_rows(payload.accounts,
                           snapshot_by_account_product(payload.opportunity_line_items,
                                                       renewal_opps, <<>>),
                           snapshot_account_end_date(renewal_opps, <<>>)))

arr_from_snapshot_payload(payload) ==
    snapshot_result(payload, snapshot_renewal_opps(payload.opportunities))

----------------------------------------------------------------------------
(* Salesforce sync *)

\* An optional number is <<>> (None) or <<n>>.
NoneNum == <<>>

\* _parse_date: date.fromisoformat(s[:10]), None when s is empty or unparseable.
parse_date(s) ==
    IF s = NoneStr \/ s = <<>> THEN NoneDate
    ELSE date_fromisoformat(SubSeq(s, 1, IF Len(s) < 10 THEN Len(s) ELSE 10))

\* A field value that is present and not a number: float() raises ValueError
\* on it.  Beside None (<<>>) and a number (<<n>>) it is held as a pair.
MALFORMED == <<"n", "a">>

IsMalformed(v) == Len(v) = 2

\* `float(rec["AnnualRevenue"]) if rec.get("AnnualRevenue") is not None else None`
\* (line 594) raises; a record without the key has no such field.
account_raises(rec) ==
    "AnnualRevenue" \in DOMAIN rec /\ IsMalformed(rec.AnnualRevenue)

\* `float(rec.get("Amount") or 0)` (line 623) raises.
opportunity_raises(rec) == "Amount" \in DOMAIN rec /\ IsMalformed(rec.Amount)

\* `float(total)` (line 651) raises.  Quantity and UnitPrice, which lines
\* 668-669 convert the same way, are numbers in every record of the inputs.
line_item_raises(rec) == IsMalformed(rec.TotalPrice)

\* Lines 588-603: the Account row of a fetched record.
account_row(rec) == [sf_id |-> rec.Id, segment |-> rec.Segment__c]

\* Lines 616-631: the Opportunity row of a fetched record.
opportunity_row(rec) ==
    [sf_id |-> rec.Id,
     stage_name |-> rec.StageName,
     record_type_name |-> IF strip(OrEmpty(rec.RecordType_Name)) # <<>>
                          THEN strip(OrEmpty(rec.RecordType_Name)) ELSE NoneStr,
     account_id |-> rec.Account_Id,
     account_name |-> rec.Account_Name,
     close_date |-> parse_date(rec.CloseDate)]

\* Lines 644-671: the OpportunityLineItem row of a fetched record.
line_item_row(rec) ==
    LET total == IF rec.TotalPrice = NoneNum
                 THEN rec.UnitPrice * rec.Quantity ELSE rec.TotalPrice[1]
        named == IF rec.Product2_Name # NoneStr /\ strip(rec.Product2_Name) # <<>>
                 THEN strip(rec.Product2_Name) ELSE NoneStr
        raw == strip(OrEmpty(rec.Name))
        last == IF contains(SEPARATOR, raw)
                THEN (IF strip(rsplit_last(raw, SEPARATOR)) # <<>>
                      THEN strip(rsplit_last(raw, SEPARATOR)) ELSE raw)
                ELSE raw
        product_name == IF named = NoneStr /\ rec.Name # NoneStr /\ last # <<>>
                        THEN last ELSE named
    IN [opportunity_sf_id |-> rec.OpportunityId,
        product_name |-> product_name,
        total_price |-> total]

\* `for rec in records: if not rec.get(id): continue; db.add(row(rec))`
RowsOf(records, IdOf(_), RowOf(_)) ==
    LET kept == SelectSeq(records, LAMBDA rec : Truthy(IdOf(rec)))
    IN [i \in DOMAIN kept |-> RowOf(kept[i])]

\* The index of the first record the loop processes whose row raises, one
\* past the end when none does.
FirstRaising(records, IdOf(_), RowRaises(_)) ==
    LET raising == {i \in DOMAIN records :
                       Truthy(IdOf(records[i])) /\ RowRaises(records[i])}
    IN IF raising = {} THEN Len(records) + 1
       ELSE CHOOSE i \in raising : \A j \in raising : i <= j

\* The rows the loop has added when it ends or raises.
Ingested(records, IdOf(_), RowRaises(_), RowOf(_)) ==
    RowsOf(SubSeq(records, 1, FirstRaising(records, IdOf, RowRaises) - 1), IdOf, RowOf)

Raises(records, IdOf(_), RowRaises(_)) ==
    FirstRaising(records, IdOf, RowRaises) <= Len(records)

\* Lines 579-604, 611-632 and 639-671: the session's pending tables after
\* each delete-and-add loop.
with_accounts(session, fetch) ==
    [session EXCEPT !.accounts =
        Ingested(fetch.account_records, LAMBDA r : r.Id, account_raises, account_row)]

with_opportunities(session, fetch) ==
    [session EXCEPT !.opportunities =
        Ingested(fetch.opp_records, LAMBDA r : r.Id, opportunity_raises, opportunity_row)]

with_line_items(session, fetch) ==
    [session EXCEPT !.line_items =
        Ingested(fetch.line_records, LAMBDA r : r.OpportunityId, line_item_raises,
                 line_item_row)]

\* A session that keeps its pending changes where the code discards them.
rollback_kept(committed, session) == session

\* db.rollback(): the session's pending changes are discarded.
rollback(committed, session) == committed

\* Lines 606-687, from the opportunities fetch on.
sync_from_opportunities(committed, session, fetch) ==
    IF fetch.fail_at = "opportunities"
    THEN [ok |-> FALSE, raised |-> FALSE, session |-> rollback(committed, session)]
    ELSE IF Raises(fetch.opp_records, LAMBDA r : r.Id, opportunity_raises)
    THEN [ok |-> FALSE, raised |-> TRUE, session |-> with_opportunities(session, fetch)]
    ELSE IF fetch.fail_at = "line_items"
    THEN [ok |-> FALSE, raised |-> FALSE, session |-> rollback(committed, session)]
    ELSE [ok |-> ~Raises(fetch.line_records, LAMBDA r : r.OpportunityId, line_item_raises),
          raised |-> Raises(fetch.line_records, LAMBDA r : r.OpportunityId, line_item_raises),
          session |-> with_line_items(with_opportunities(session, fetch), fetch)]

\* _run_salesforce_sync on a session that starts at the committed tables:
\* the result's ok flag, whether an exception left the function instead, and
\* the session's pending tables at that point.
run_salesforce_sync(committed, fetch) ==
    IF ~fetch.configured \/ fetch.fail_at = "accounts"
    THEN [ok |-> FALSE, raised |-> FALSE, session |-> committed]
    ELSE IF Raises(fetch.account_records, LAMBDA r : r.Id, account_raises)
    THEN [ok |-> FALSE, raised |-> TRUE, session |-> with_accounts(committed, fetch)]
    ELSE sync_from_opportunities(committed, with_accounts(committed, fetch), fetch)

\* get_db around the endpoint's handler: the session is committed when the
\* handler returns and rolled back when it raises.
endpoint_commit(committed, result) ==
    IF result.raised THEN rollback(committed, result.session) ELSE result.session

\* Lines 736-741: the loop commits an ok result and rolls back any other; an
\* exception leaves the `async with` block, which closes the session
\* uncommitted.
scheduler_commit(committed, result) ==
    IF result.ok THEN result.session ELSE rollback(committed, result.session)

----------------------------------------------------------------------------
(* Bounded inputs: what Salesforce returns to a sync *)

MaxOpps == 2

MaxLines == 2

SeqsUpTo(S, n) == UNION {[1..k -> S] : k \in 0..n}

Distinct(seq, F(_)) == \A i, j \in DOMAIN seq : i # j => F(seq[i]) # F(seq[j])

AccountRecordSets ==
    { << [Id |-> "A1", Segment__c |-> <<" ","E","n","t","e","r","p","r","i","s","e"," ">>] >>,
      << [Id |-> "A1", Segment__c |-> <<" ", " ">>],
         [Id |-> "A2", Segment__c |-> NoneStr] >> }

OppRec(id, stage, rt, aid, aname, close) ==
    [Id |-> id, StageName |-> stage, RecordType_Name |-> rt, Account_Id |-> aid,
     Account_Name |-> aname, CloseDate |-> close]

OppRecords ==
    { OppRec("O1", "Negotiation", <<"R","e","n","e","w","a","l">>, "A1", "Acme", <<"2","0","2","5","-","0","3","-","3","1">>),
      OppRec("O1", None, <<"R","e","n","e","w","a","l">>, "A1", "Acme", <<"2","0","2","5","-","0","3","-","3","1">>),
      OppRec("O1", "Closed Won", <<"R","e","n","e","w","a","l">>, "A1", "Acme", <<"2","0","2","5","-","0","3","-","3","1">>),
      OppRec("O2", "Proposal", <<" ","r","e","n","e","w","a","l"," ">>, "A2", None, NoneStr),
      OppRec("O2", "Proposal", <<"R","e","n","e","w","a","l">>, "A1", "Acme Inc", <<"2","0","2","5","-","0","6","-","3","0">>),
      OppRec("O2", "Proposal", <<"R","e","n","e","w","a","l">>, "A1", "Acme", <<"2","0","2","5","-","0","6","-","3","0">>),
      OppRec("O2", "Proposal", <<"N","e","w"," ","B","u","s","i","n","e","s","s">>, "A1", "Acme", <<"2","0","2","5","-","0","6","-","3","0">>) }

LineRec(opp, product2, name, total) ==
    [OpportunityId |-> opp, Product2_Name |-> product2, Name |-> name,
     TotalPrice |-> total, UnitPrice |-> 100000, Quantity |-> 2]

LineRecords ==
    { LineRec("O1", <<"P","r","e","m","i","u","m"," ","S","u","p","p","o","r","t">>, NoneStr, <<300000>>),
      LineRec("O1", <<" "," ","K","I","P","U"," "," "," ","a","p","i"," ">>, NoneStr, <<500000>>),
      LineRec("O1", NoneStr, <<"A","c","m","e"," ","-"," ","R","e","n","e","w","a","l"," ","-"," ","D","a","z","o","s"," ","C","R","M"," ","P","l","a","t","f","o","r","m"," ","(","L","e","g","a","c","y",")">>, <<1000000>>),
      LineRec("O1", NoneStr, NoneStr, NoneNum),
      LineRec("O1", <<"K","i","p","u"," ","A","P","I"," ","-"," ","S","e","t","u","p">>, NoneStr, <<150000>>),
      LineRec("O1", <<"W","i","d","g","e","t">>, NoneStr, <<33333>>),
      LineRec("O2", <<"P","r","e","m","i","u","m"," ","S","u","p","p","o","r","t">>, NoneStr, <<300000>>),
      LineRec("O9", <<"P","r","e","m","i","u","m"," ","S","u","p","p","o","r","t">>, NoneStr, <<300000>>) }

Fetches ==
    { [configured |-> TRUE, fail_at |-> "none",
       account_records |-> a, opp_records |-> o, line_records |-> l] :
        a \in AccountRecordSets,
        o \in {x \in SeqsUpTo(OppRecords, MaxOpps) : Distinct(x, LAMBDA r : r.Id)},
        l \in SeqsUpTo(LineRecords, MaxLines) }

EmptyStore == [accounts |-> <<>>, opportunities |-> <<>>, line_items |-> <<>>]

\* The tables a successful sync of a bounded fetch commits.
SyncedStores == {run_salesforce_sync(EmptyStore, f).session : f \in Fetches}

----------------------------------------------------------------------------
(* Clock: wall time in America/New_York *)

\* datetime.now(EST).date()
today_est(t) == t.date

----------------------------------------------------------------------------
(* EOD snapshot *)

NoResponse == [kind |-> "none"]

\* No iteration of the scheduler loop has run yet.
NoPoll ==
    [at |-> [date |-> NoneDate, sod |-> 0, dst |-> FALSE],
     hourly |-> "none", eod |-> "none", replaced |-> FALSE]

\* No EOD snapshot is being read.
IdleRead == [pc |-> "idle"]

\* The row of the date would be added beside the rows stored.
store_snapshot_beside(snapshots, day, payload) ==
    snapshots \cup {[snapshot_date |-> day, data_json |-> payload]}

\* Lines 714-720 and the caller's commit: the rows of the date are deleted
\* and one row with the payload is added.
store_snapshot(snapshots, day, payload) ==
    {s \in snapshots : s.snapshot_date # day}
        \cup {[snapshot_date |-> day, data_json |-> payload]}

\* _take_salesforce_eod_snapshot and the caller's commit: the day's row is
\* deleted and a row with the payload of the three tables is added.
take_salesforce_eod_snapshot(snapshots, store, t) ==
    store_snapshot(snapshots, today_est(t),
                   snapshot_payload(store.accounts, store.opportunities,
                                    store.line_items))

Store == [accounts |-> accounts, opportunities |-> opportunities, line_items |-> line_items]

\* The day's snapshot is taken and committed.
TakeEodSnapshot ==
    /\ eod_snapshots' = take_salesforce_eod_snapshot(eod_snapshots, Store, now)
    /\ response' = NoResponse
    /\ UNCHANGED <<accounts, opportunities, line_items, now, last_sync_hour,
                   last_eod_date, sync_log, eod_log, last_poll,
                   loop, eod_read>>

----------------------------------------------------------------------------
(* Specification of the aggregation: any synced store, then its EOD snapshot *)

ArrClock == [date |-> <<2025, 3, 31>>, sod |-> 86399, dst |-> TRUE]

InitArr ==
    /\ \E st \in SyncedStores :
          /\ accounts = st.accounts
          /\ opportunities = st.opportunities
          /\ line_items = st.line_items
    /\ eod_snapshots = {}
    /\ now = ArrClock
    /\ last_sync_hour = <<>>
    /\ last_eod_date = NoneDate
    /\ sync_log = <<>>
    /\ eod_log = <<>>
    /\ last_poll = NoPoll
    /\ loop = "running"
    /\ eod_read = IdleRead
    /\ response = NoResponse

NextArr == TakeEodSnapshot

SpecArr == InitArr /\ [][NextArr]_vars

----------------------------------------------------------------------------
(* Claims C1-C5: the aggregation result, live and from a snapshot *)

LiveArr == get_arr_by_account_product_data(accounts, opportunities, line_items)

\* The live result and the result of every stored snapshot.
ArrResults == {LiveArr} \cup {arr_from_snapshot_payload(s.data_json) : s \in eod_snapshots}

\* An opportunity that is open (stage set and not closed) and a renewal.
IsOpenRenewal(o) ==
    /\ o.stage_name # None
    /\ o.stage_name \notin {"Closed Won", "Closed Lost"}
    /\ lower(strip(OrEmpty(o.record_type_name))) = <<"r","e","n","e","w","a","l">>

\* The line items whose parent opportunity exists and is an open renewal.
LinesOfOpenRenewals(opps, lines) ==
    SelectSeq(lines, LAMBDA li :
        \E i \in DOMAIN opps :
            opps[i].sf_id = li.opportunity_sf_id /\ IsOpenRenewal(opps[i]))

\* C1: the aggregation of the payload an EOD snapshot encodes from the store
\* equals the live aggregation over that store (products, rows, totals).
C1_SnapshotRoundTrip ==
    \A s \in eod_snapshots : arr_from_snapshot_payload(s.data_json) = LiveArr

\* C2: only line items of existing, open (stage set, not closed) renewal
\* opportunities contribute: leaving all other line items out changes
\* neither the live result nor the result of a snapshot.
C2_OnlyOpenRenewalLinesCount ==
    /\ LiveArr = get_arr_by_account_product_data(
                     accounts, opportunities,
                     LinesOfOpenRenewals(opportunities, line_items))
    /\ \A s \in eod_snapshots :
          arr_from_snapshot_payload(s.data_json)
            = arr_from_snapshot_payload(
                  [s.data_json EXCEPT !.opportunity_line_items =
                      LinesOfOpenRenewals(s.data_json.opportunities, @)])

\* A product name that is one of the three excluded products up to letter
\* case and extra whitespace.
IsExcludedProductName(name) ==
    /\ name # NoneStr
    /\ lower(join_space(split(name))) \in
          { <<"i","v","e","r","i","f","y"," ","m","o","n","t","h","l","y"," ","c","r","e","d","i","t","s">>,
            <<"v","e","r","i","f","y"," ","m","o","n","t","h","l","y"," ","c","r","e","d","i","t","s">>,
            <<"k","i","p","u"," ","a","p","i">> }

ExcludedNameVariants ==
    { <<"K","i","p","u"," ","A","P","I">>,
      <<"K","I","P","U"," ","A","P","I">>,
      <<" ","k","i","p","u"," "," "," ","a","p","i"," ">>,
      <<"i","V","e","r","i","f","y"," ","M","o","n","t","h","l","y"," ","C","r","e","d","i","t","s">>,
      <<"I","V","E","R","I","F","Y"," "," ","m","o","n","t","h","l","y","\t","c","r","e","d","i","t","s">>,
      <<"V","e","r","i","f","y"," ","M","o","n","t","h","l","y"," ","C","r","e","d","i","t","s">>,
      <<"v","e","r","i","f","y"," "," ","M","O","N","T","H","L","Y"," ","c","r","e","d","i","t","s"," ">> }

\* Every variant of an excluded product's name is recognised as excluded.
VariantsAreExcluded == \A v \in ExcludedNameVariants : is_arr_excluded_product(v)

\* The product names of the bounded inputs that name an excluded product.
ExcludedInputs == {n \in ProductNameInputs : IsExcludedProductName(n)}

WithoutExcluded(lines) == SelectSeq(lines, LAMBDA li : li.product_name \notin ExcludedInputs)

\* The store of the scenario: one open renewal with an excluded line of 500
\* and a Premium Support line of 300.
KipuScenario ==
    /\ Len(opportunities) = 1 /\ IsOpenRenewal(opportunities[1])
    /\ Len(line_items) = 2
    /\ \A i \in 1..2 : line_items[i].opportunity_sf_id = opportunities[1].sf_id
    /\ \E i, j \in 1..2 :
          /\ line_items[i].product_name \in ExcludedInputs
          /\ line_items[i].total_price = 500000
          /\ line_items[j].product_name = <<"P","r","e","m","i","u","m"," ","S","u","p","p","o","r","t">>
          /\ line_items[j].total_price = 300000

\* C3: a line item named as an excluded product, in any letter case and with
\* extra whitespace, adds nothing to any cell or total; in the scenario the
\* account's Premium Support value and total_arr are 3600 and no amount
\* carries the 500.
C3_ExcludedProductsAddNothing ==
    /\ VariantsAreExcluded
    /\ LiveArr = get_arr_by_account_product_data(accounts, opportunities,
                                                 WithoutExcluded(line_items))
    /\ \A s \in eod_snapshots :
          arr_from_snapshot_payload(s.data_json)
            = arr_from_snapshot_payload(
                  [s.data_json EXCEPT !.opportunity_line_items = WithoutExcluded(@)])
    /\ KipuScenario =>
          \A r \in ArrResults :
              /\ Len(r.rows) = 1
              /\ r.rows[1].by_product["Premium Support"] = 3600000
              /\ r.rows[1].total_arr = 3600000
              /\ r.grand_total = 3600000
              /\ \A c \in DOMAIN r.rows[1].by_product :
                    c # "Premium Support" => r.rows[1].by_product[c] = 0

C3_Witness ==
    /\ KipuScenario
    /\ eod_snapshots # {}
    /\ LiveArr.rows[1].by_product["Premium Support"] = 3600000

\* The column a counted line item falls in.
ColumnOf(product_name) ==
    IF MatchedColumn(NormalizedName(product_name)) # None
    THEN MatchedColumn(NormalizedName(product_name))
    ELSE "Other"

\* The summed total_price of the row's counted line items that fall in column c:
\* those on open renewal opportunities of the row's account, with a usable
\* product name that is not excluded.
RowColumnMrr(opps, lines, row, c) ==
    SumSeq(LET counted == SelectSeq(lines, LAMBDA li :
                   /\ \E i \in DOMAIN opps :
                         /\ opps[i].sf_id = li.opportunity_sf_id
                         /\ IsOpenRenewal(opps[i])
                         /\ opps[i].account_id = row.account_id
                         /\ (IF Truthy(opps[i].account_name)
                             THEN opps[i].account_name ELSE EM_DASH) = row.account_name
                   /\ NormalizedName(li.product_name) # <<>>
                   /\ ~IsExcluded(li.product_name)
                   /\ ~IsExcluded(NormalizedName(li.product_name))
                   /\ ColumnOf(li.product_name) = c)
           IN [i \in DOMAIN counted |-> counted[i].total_price])

Annualized(opps, lines, r) ==
    \A i \in DOMAIN r.rows : \A c \in DOMAIN r.rows[i].by_product :
        r.rows[i].by_product[c] = round2(12 * RowColumnMrr(opps, lines, r.rows[i], c))

\* C4: every cell by_product[c] of every row, live or from a snapshot, is 12
\* times the summed total_price of that account's counted line items on open
\* renewal opportunities in column c, rounded to 2 decimals.
C4_CellsAnnualizedOnce ==
    /\ Annualized(opportunities, line_items, LiveArr)
    /\ \A s \in eod_snapshots :
          Annualized(s.data_json.opportunities, s.data_json.opportunity_line_items,
                     arr_from_snapshot_payload(s.data_json))

\* d.get(c, 0)
GetOr0(d, c) == IF c \in DOMAIN d THEN d[c] ELSE 0

\* C5: in every result, total_arr is the sum of the row's by_product values,
\* total_by_product[c] the sum of by_product[c] over the rows (0 when the
\* result lists no total for c), and grand_total the sum of the rows' total_arr.
C5_TotalsAreSums ==
    \A r \in ArrResults :
        /\ \A i \in DOMAIN r.rows :
              r.rows[i].total_arr
                = SumSeq([k \in DOMAIN PRODUCTS |-> r.rows[i].by_product[PRODUCTS[k]]])
        /\ \A c \in Range(PRODUCTS) :
              GetOr0(r.total_by_product, c)
                = SumSeq([i \in DOMAIN r.rows |-> r.rows[i].by_product[c]])
        /\ r.rows # <<>> => DOMAIN r.total_by_product = Range(PRODUCTS)
        /\ r.grand_total = SumSeq([i \in DOMAIN r.rows |-> r.rows[i].total_arr])

C5_Witness ==
    /\ eod_snapshots # {}
    /\ \A r \in ArrResults :
          /\ Len(r.rows) = 2
          /\ r.rows[1].total_arr = 3600000
          /\ r.rows[2].total_arr = 3600000
          /\ r.total_by_product["Premium Support"] = 7200000
          /\ r.grand_total = 7200000

----------------------------------------------------------------------------
(* Copilot: the month/year and reference date a question names *)

\* Month name -> number, in the dict's insertion order.
MONTH_NAMES ==
    << [name |-> <<"j","a","n","u","a","r","y">>, month |-> 1], [name |-> <<"j","a","n">>, month |-> 1],
       [name |-> <<"f","e","b","r","u","a","r","y">>, month |-> 2], [name |-> <<"f","e","b">>, month |-> 2],
       [name |-> <<"m","a","r","c","h">>, month |-> 3], [name |-> <<"m","a","r">>, month |-> 3],
       [name |-> <<"a","p","r","i","l">>, month |-> 4], [name |-> <<"a","p","r">>, month |-> 4],
       [name |-> <<"m","a","y">>, month |-> 5],
       [name |-> <<"j","u","n","e">>, month |-> 6], [name |-> <<"j","u","n">>, month |-> 6],
       [name |-> <<"j","u","l","y">>, month |-> 7], [name |-> <<"j","u","l">>, month |-> 7],
       [name |-> <<"a","u","g","u","s","t">>, month |-> 8], [name |-> <<"a","u","g">>, month |-> 8],
       [name |-> <<"s","e","p","t","e","m","b","e","r">>, month |-> 9], [name |-> <<"s","e","p">>, month |-> 9],
       [name |-> <<"s","e","p","t">>, month |-> 9],
       [name |-> <<"o","c","t","o","b","e","r">>, month |-> 10], [name |-> <<"o","c","t">>, month |-> 10],
       [name |-> <<"n","o","v","e","m","b","e","r">>, month |-> 11], [name |-> <<"n","o","v">>, month |-> 11],
       [name |-> <<"d","e","c","e","m","b","e","r">>, month |-> 12], [name |-> <<"d","e","c">>, month |-> 12] >>

\* No (year, month) found.
NoneYm == <<>>

\* s[i] (1-based), or "" past either end.
At(s, i) == IF i \in 1..Len(s) THEN s[i] ELSE ""

\* \w of the regular expressions in use: a letter, a digit or the underscore.
IsWordChar(c) ==
    \/ IsDigit(c)
    \/ c = "_"
    \/ \E i \in DOMAIN LOWERCASE : LOWERCASE[i] = c \/ UPPERCASE[i] = c

\* The decimal number the digits s[i..j] spell.
RECURSIVE Number(_, _, _)
Number(s, i, j) == IF j < i THEN 0 ELSE Number(s, i, j - 1) * 10 + DigitValue(s[j])

\* The start positions (1-based) of needle in hay.
Occurrences(needle, hay) ==
    {i \in 1..(Len(hay) - Len(needle) + 1) : SubSeq(hay, i, i + Len(needle) - 1) = needle}

\* What [\s'\-]* consumes at the start of s.
RECURSIVE SkipYearSeparators(_)
SkipYearSeparators(s) ==
    IF s # <<>> /\ Head(s) \in WHITESPACE \cup {"'", "-"}
    THEN SkipYearSeparators(Tail(s)) ELSE s

\* Lines 502-514: the year that follows a month name in `rest`, or 0.  First
\* [\s'\-]*(\d{4})\b with 2020 <= y <= 2040, then [\s'\-]*'?(\d{2})\b.
YearAfterMonth(rest) ==
    LET body == SkipYearSeparators(strip(rest))
        Digits(n) == \A i \in 1..n : IsDigit(At(body, i))
        four == IF Digits(4) /\ ~IsWordChar(At(body, 5)) THEN Number(body, 1, 4) ELSE 0
        yy == IF Digits(2) /\ ~IsWordChar(At(body, 3)) THEN Number(body, 1, 2) ELSE -1
        two == IF yy = -1 THEN 0 ELSE IF yy < 50 THEN 2000 + yy ELSE 1900 + yy
    IN IF four >= 2020 /\ four <= 2040 THEN four
       ELSE IF two >= 2020 /\ two <= 2040 THEN two
       ELSE 0

\* The year found after the earliest occurrence of `name` that is followed by
\* one (rest = q_lower[end:end + 15]), or 0.
YearForMonthName(name, q_lower) ==
    LET RestAt(i) == SubSeq(q_lower, i + Len(name),
                            IF i + Len(name) + 14 < Len(q_lower)
                            THEN i + Len(name) + 14 ELSE Len(q_lower))
        hits == {i \in Occurrences(name, q_lower) : YearAfterMonth(RestAt(i)) # 0}
    IN IF hits = {} THEN 0
       ELSE YearAfterMonth(RestAt(CHOOSE i \in hits : \A j \in hits : i <= j))

parse_renewal_month_from_question(q) ==
    LET q_lower == lower(q)
        found == {k \in DOMAIN MONTH_NAMES : YearForMonthName(MONTH_NAMES[k].name, q_lower) # 0}
    IN IF found = {} THEN NoneYm
       ELSE LET k == CHOOSE i \in found : \A j \in found : i <= j
            IN <<YearForMonthName(MONTH_NAMES[k].name, q_lower), MONTH_NAMES[k].month>>

\* The date before d.
PrevDate(d) ==
    IF d[3] > 1 THEN <<d[1], d[2], d[3] - 1>>
    ELSE IF d[2] > 1 THEN <<d[1], d[2] - 1, DaysInMonth(d[1], d[2] - 1)>>
    ELSE <<d[1] - 1, 12, 31>>

\* The date after d.
NextDate(d) ==
    IF d[3] < DaysInMonth(d[1], d[2]) THEN <<d[1], d[2], d[3] + 1>>
    ELSE IF d[2] < 12 THEN <<d[1], d[2] + 1, 1>>
    ELSE <<d[1] + 1, 1, 1>>

\* re.search(r"\b(202[0-9])-(\d{1,2})-(\d{1,2})\b", q) matched at position i:
\* <<year, month, day>> as the groups spell them, or <<>> when there is no match at i.
IsoMatchAt(q, i) ==
    IF /\ ~IsWordChar(At(q, i - 1))
       /\ At(q, i) = "2" /\ At(q, i + 1) = "0" /\ At(q, i + 2) = "2"
       /\ IsDigit(At(q, i + 3))
       /\ At(q, i + 4) = "-"
    THEN LET j == i + 5
             mlen == IF IsDigit(At(q, j)) /\ IsDigit(At(q, j + 1)) /\ At(q, j + 2) = "-" THEN 2
                     ELSE IF IsDigit(At(q, j)) /\ At(q, j + 1) = "-" THEN 1
                     ELSE 0
             k == j + mlen + 1
             dlen == IF IsDigit(At(q, k)) /\ IsDigit(At(q, k + 1)) /\ ~IsWordChar(At(q, k + 2)) THEN 2
                     ELSE IF IsDigit(At(q, k)) /\ ~IsWordChar(At(q, k + 1)) THEN 1
                     ELSE 0
         IN IF mlen = 0 \/ dlen = 0 THEN <<>>
            ELSE <<Number(q, i, i + 3), Number(q, j, j + mlen - 1), Number(q, k, k + dlen - 1)>>
    ELSE <<>>

\* Lines 529-534: the date of the first ISO-style match, NoneDate when there is
\* no match or date() raises ValueError on it.
iso_date_in_question(q) ==
    LET hits == {i \in 1..Len(q) : IsoMatchAt(q, i) # <<>>} IN
    IF hits = {} THEN NoneDate
    ELSE LET m == IsoMatchAt(q, CHOOSE i \in hits : \A j \in hits : i <= j)
         IN IF ValidDate(m[1], m[2], m[3]) THEN m ELSE NoneDate

\* Line 537: "as of" in q_lower or "on " in q_lower or " in " in q_lower
\* or re.search(r"\b(as of|on|in)\s+", q_lower).
has_date_preposition(q_lower) ==
    \/ contains(<<"a","s"," ","o","f">>, q_lower)
    \/ contains(<<"o","n"," ">>, q_lower)
    \/ contains(<<" ","i","n"," ">>, q_lower)
    \/ \E w \in {<<"a","s"," ","o","f">>, <<"o","n">>, <<"i","n">>} : \E i \in Occurrences(w, q_lower) :
          /\ ~IsWordChar(At(q_lower, i - 1))
          /\ At(q_lower, i + Len(w)) \in WHITESPACE

\* What _parse_date_from_question finds in the text alone: whether it says
\* "last month", and otherwise the ISO date or the month's last day
\* (lines 529-542), NoneDate when neither is found.
date_reference(q) ==
    LET q_lower == lower(q)
        iso == iso_date_in_question(q)
        ym == parse_renewal_month_from_question(q)
    IN [last_month |-> contains(<<"l","a","s","t"," ","m","o","n","t","h">>, q_lower),
        date |-> IF iso # NoneDate THEN iso
                 ELSE IF ym # NoneYm /\ has_date_preposition(q_lower)
                 THEN <<ym[1], ym[2], DaysInMonth(ym[1], ym[2])>>
                 ELSE NoneDate]

----------------------------------------------------------------------------
(* Copilot: intents *)

\* Line 236.
asks_arr_change(q_lower) ==
    /\ contains(<<"a","r","r">>, q_lower) \/ contains(<<"c","a","r","r">>, q_lower)
    /\ \/ contains(<<"c","h","a","n","g","e">>, q_lower)
       \/ contains(<<"d","i","f","f">>, q_lower)
       \/ contains(<<"c","o","m","p","a","r","e","d">>, q_lower)
       \/ contains(<<"v","s"," ">>, q_lower)

TOTAL_PHRASES ==
    { <<"t","o","t","a","l"," ","a","r","r">>, <<"t","o","t","a","l"," ","c","a","r","r">>, <<"h","o","w"," ","m","u","c","h"," ","a","r","r">>, <<"h","o","w"," ","m","u","c","h"," ","c","a","r","r">>,
      <<"w","h","a","t","'","s"," ","o","u","r"," ","a","r","r">>, <<"w","h","a","t","'","s"," ","o","u","r"," ","c","a","r","r">>, <<"w","h","a","t"," ","i","s"," ","o","u","r"," ","a","r","r">>,
      <<"w","h","a","t"," ","i","s"," ","o","u","r"," ","c","a","r","r">>, <<"t","o","t","a","l"," ","r","e","c","u","r","r","i","n","g">>, <<"a","r","r"," ","a","s"," ","o","f">>, <<"c","a","r","r"," ","a","s"," ","o","f">>,
      <<"a","r","r"," ","o","n"," ">>, <<"c","a","r","r"," ","o","n"," ">> }

\* Line 274.
asks_total(q_lower) == \E phrase \in TOTAL_PHRASES : contains(phrase, q_lower)

LARGEST_PHRASES ==
    { <<"l","a","r","g","e","s","t"," ","c","u","s","t","o","m","e","r">>, <<"b","i","g","g","e","s","t"," ","c","u","s","t","o","m","e","r">>, <<"t","o","p"," ","c","u","s","t","o","m","e","r">>,
      <<"w","h","o"," ","i","s"," ","o","u","r"," ","l","a","r","g","e","s","t">>, <<"l","a","r","g","e","s","t"," ","a","c","c","o","u","n","t">>, <<"b","i","g","g","e","s","t"," ","a","c","c","o","u","n","t">> }

\* Line 281.
asks_largest(q_lower) == \E phrase \in LARGEST_PHRASES : contains(phrase, q_lower)

\* Line 296.
asks_renewal_month(q) ==
    /\ \/ contains(<<"r","e","n","e","w","a","l">>, lower(q))
       \/ contains(<<"a","r","r">>, lower(q))
       \/ contains(<<"c","a","r","r">>, lower(q))
    /\ parse_renewal_month_from_question(q) # NoneYm

\* The branch of copilot that answers q: the if statements in source order.
intent_of_total_first(q) ==
    IF asks_total(lower(q)) THEN "total"
    ELSE IF asks_arr_change(lower(q)) THEN "delta"
    ELSE IF asks_largest(lower(q)) THEN "largest"
    ELSE IF asks_renewal_month(q) THEN "renewal"
    ELSE "fallback"

intent_of(q) ==
    IF asks_arr_change(lower(q)) THEN "delta"
    ELSE IF asks_total(lower(q)) THEN "total"
    ELSE IF asks_largest(lower(q)) THEN "largest"
    ELSE IF asks_renewal_month(q) THEN "renewal"
    ELSE "fallback"

----------------------------------------------------------------------------
(* Copilot: the answer *)

\* n / d rounded to the nearest integer, ties to even (d > 0).
RoundDiv(n, d) ==
    LET q == n \div d
        r == n % d
    IN IF 2 * r < d THEN q
       ELSE IF 2 * r > d THEN q + 1
       ELSE IF q % 2 = 0 THEN q ELSE q + 1

\* f"{x:,.0f}": the amount in whole dollars.
format_dollars(x) == RoundDiv(x, 1000)

Abs(x) == IF x < 0 THEN -x ELSE x

\* str(n) for n >= 0.
RECURSIVE str_int(_)
str_int(n) == IF n < 10 THEN <<DigitChar(n)>> ELSE str_int(n \div 10) \o <<DigitChar(n % 10)>>

\* str.capitalize() of a lower-case word.
capitalize(s) ==
    IF s = <<>> THEN s
    ELSE <<IF \E i \in DOMAIN LOWERCASE : LOWERCASE[i] = s[1]
           THEN UPPERCASE[CHOOSE i \in DOMAIN LOWERCASE : LOWERCASE[i] = s[1]]
           ELSE s[1]>> \o Tail(s)

\* Lines 311-312: the month's first name of more than 3 letters, capitalized;
\* str(month) and the year when the table has none.
month_label(year, month) ==
    LET long == {k \in DOMAIN MONTH_NAMES :
                    MONTH_NAMES[k].month = month /\ Len(MONTH_NAMES[k].name) > 3}
    IN IF long # {}
       THEN capitalize(MONTH_NAMES[CHOOSE k \in long : \A j \in long : k <= j].name)
       ELSE str_int(month) \o <<" ">> \o str_int(year)

LIVE_LABEL == <<"C","u","s","t","o","m","e","r"," ","o","v","e","r","v","i","e","w"," ","(","o","p","e","n"," ","r","e","n","e","w","a","l","s",")">>

NO_SNAPSHOT_LABEL == <<"C","u","s","t","o","m","e","r"," ","o","v","e","r","v","i","e","w"," ","(","n","o"," ","s","n","a","p","s","h","o","t"," ","f","o","r"," ","t","h","a","t"," ","d","a","t","e",";"," ","s","h","o","w","i","n","g"," ","c","u","r","r","e","n","t",")">>

\* f"EOD snapshot ({snap.snapshot_date.isoformat()})"
snapshot_label(d) == <<"E","O","D"," ","s","n","a","p","s","h","o","t"," ","(">> \o isoformat(d) \o <<")">>

\* The query with `snapshot_date <= d` in place of `<`: today's snapshot counts.
latest_snapshot_not_after(snapshots, d) ==
    {s \in snapshots :
        /\ ~DateAfter(s.snapshot_date, d)
        /\ \A t \in snapshots :
              ~DateAfter(t.snapshot_date, d) => ~DateAfter(t.snapshot_date, s.snapshot_date)}

\* The stored snapshot a query `WHERE snapshot_date < d ORDER BY snapshot_date
\* DESC LIMIT 1` returns, as a set of at most one row.
latest_snapshot_before(snapshots, d) ==
    {s \in snapshots :
        /\ DateAfter(d, s.snapshot_date)
        /\ \A t \in snapshots :
              DateAfter(d, t.snapshot_date) => ~DateAfter(t.snapshot_date, s.snapshot_date)}

\* The same query ordered by ascending date: the earliest such snapshot.
earliest_snapshot_on_or_before(snapshots, d) ==
    {s \in snapshots :
        /\ ~DateAfter(s.snapshot_date, d)
        /\ \A t \in snapshots :
              ~DateAfter(t.snapshot_date, d) => ~DateAfter(s.snapshot_date, t.snapshot_date)}

\* The same with `snapshot_date <= d` (lines 1100-1104).
latest_snapshot_on_or_before(snapshots, d) ==
    {s \in snapshots :
        /\ ~DateAfter(s.snapshot_date, d)
        /\ \A t \in snapshots :
              ~DateAfter(t.snapshot_date, d) => ~DateAfter(t.snapshot_date, s.snapshot_date)}

\* The lookup that names live data as the basis when no snapshot is found.
dated_data_unnoted(found, live, as_of_date) ==
    [data |-> IF as_of_date = NoneDate \/ found = {} THEN live
              ELSE arr_from_snapshot_payload((CHOOSE s \in found : TRUE).data_json),
     source_label |-> IF as_of_date = NoneDate \/ found = {} THEN LIVE_LABEL
                      ELSE snapshot_label((CHOOSE s \in found : TRUE).snapshot_date)]

\* Lines 1096-1111: (data, source_label) from the snapshot row the query
\* found, or from the live result.
dated_data(found, live, as_of_date) ==
    [data |-> IF as_of_date = NoneDate \/ found = {} THEN live
              ELSE arr_from_snapshot_payload((CHOOSE s \in found : TRUE).data_json),
     source_label |-> IF as_of_date = NoneDate THEN LIVE_LABEL
                      ELSE IF found = {} THEN NO_SNAPSHOT_LABEL
                      ELSE snapshot_label((CHOOSE s \in found : TRUE).snapshot_date)]

\* _get_arr_data_for_date: (data, source_label).
get_arr_data_for_date(accs, opps, lines, snapshots, as_of_date) ==
    dated_data(IF as_of_date = NoneDate THEN {}
               ELSE latest_snapshot_on_or_before(snapshots, as_of_date),
               get_arr_by_account_product_data(accs, opps, lines),
               as_of_date)

\* Lines 246-261: the comparison of the live total with the snapshot's.
\* pct = round(delta / prev_arr * 100, 1) is held in tenths of a percent;
\* the amounts are whole cents.
delta_compared(current_arr, prev_arr, delta, snapshot_date) ==
    [answer |-> [intent |-> "delta",
                 current |-> format_dollars(current_arr),
                 compared |-> TRUE,
                 previous |-> format_dollars(prev_arr),
                 snapshot_date |-> isoformat(snapshot_date),
                 change |-> IF delta > 0 THEN "up"
                            ELSE IF delta < 0 THEN "down" ELSE "unchanged",
                 delta |-> format_dollars(Abs(delta)),
                 pct |-> IF prev_arr = 0 THEN <<>>
                         ELSE IF prev_arr > 0
                         THEN <<RoundDiv((delta \div 10) * 1000, prev_arr \div 10)>>
                         ELSE <<RoundDiv(-(delta \div 10) * 1000, -(prev_arr \div 10))>>],
     sources |-> <<LIVE_LABEL, snapshot_label(snapshot_date)>>]

\* Lines 244-249: the previous total is the aggregation of the snapshot found.
delta_against(current_arr, prev_arr, snapshot_date) ==
    Bind(round2(current_arr - prev_arr),
         LAMBDA delta : delta_compared(current_arr, prev_arr, delta, snapshot_date))

\* Lines 237-265: the ARR-delta answer from the live total and the latest
\* snapshot dated before today.
delta_from(current_arr, found) ==
    IF found # {}
    THEN Bind(arr_from_snapshot_payload((CHOOSE s \in found : TRUE).data_json).grand_total,
              LAMBDA prev_arr :
                  delta_against(current_arr, prev_arr,
                                (CHOOSE s \in found : TRUE).snapshot_date))
    ELSE [answer |-> [intent |-> "delta",
                      current |-> format_dollars(current_arr),
                      compared |-> FALSE],
          sources |-> <<LIVE_LABEL>>]

delta_answer(accs, opps, lines, snapshots, today) ==
    Bind(get_arr_by_account_product_data(accs, opps, lines).grand_total,
         LAMBDA current_arr :
             delta_from(current_arr, latest_snapshot_before(snapshots, today)))

\* Lines 299-309: the rows whose subscription_end_date falls in the month.
rows_in_month(rows, year, month) ==
    SelectSeq(rows, LAMBDA row :
        /\ row.subscription_end_date # NoneStr
        /\ row.subscription_end_date # <<>>
        /\ date_fromisoformat(row.subscription_end_date) # NoneDate
        /\ date_fromisoformat(row.subscription_end_date)[1] = year
        /\ date_fromisoformat(row.subscription_end_date)[2] = month)

\* account_name or the placeholder, for each row.
names_of(rows) ==
    [i \in DOMAIN rows |->
        IF Truthy(rows[i].account_name) THEN rows[i].account_name ELSE EM_DASH]

\* Lines 310-325: the renewal answer from the rows of the month.
renewal_answer(ym, in_month, total_arr, source_label) ==
    [answer |-> [intent |-> "renewal",
                 month_label |-> month_label(ym[1], ym[2]),
                 year |-> ym[1],
                 amount |-> IF total_arr > 0 THEN format_dollars(total_arr) ELSE 0,
                 accounts |-> IF total_arr > 0 THEN Len(in_month) ELSE 0,
                 names |-> IF total_arr > 0
                           THEN names_of(SubSeq(in_month, 1,
                                    IF Len(in_month) > 10 THEN 10 ELSE Len(in_month)))
                           ELSE <<>>,
                 more |-> IF total_arr > 0 /\ Len(in_month) > 10
                          THEN Len(in_month) - 10 ELSE 0],
     sources |-> <<source_label>>]

\* total_arr = round(sum(r.get("total_arr") or 0 for r in in_month), 2)
renewal_in_month(ym, in_month, source_label) ==
    renewal_answer(ym, in_month,
                   round2(SumSeq([i \in DOMAIN in_month |-> in_month[i].total_arr])),
                   source_label)

\* f" (as of {as_of_date})" if as_of_date else ""
date_note(as_of_date) == IF as_of_date # NoneDate THEN isoformat(as_of_date) ELSE NoneStr

\* The answer without the `if rows:` guard of line 282: rows[0] of an empty
\* list raises IndexError and the request ends in an error.
dated_answer_unguarded(intent, ym, as_of_date, got) ==
    IF intent = "total"
    THEN [answer |-> [intent |-> "total", date_note |-> date_note(as_of_date),
                      amount |-> format_dollars(got.data.grand_total),
                      accounts |-> Len(got.data.rows)],
          sources |-> <<got.source_label>>]
    ELSE IF intent = "largest" /\ got.data.rows # <<>>
    THEN [answer |-> [intent |-> "largest", date_note |-> date_note(as_of_date),
                      name |-> names_of(got.data.rows)[1],
                      amount |-> format_dollars(got.data.rows[1].total_arr)],
          sources |-> <<got.source_label>>]
    ELSE IF intent = "largest"
    THEN [answer |-> [intent |-> "error"], sources |-> <<>>]
    ELSE IF intent = "renewal"
    THEN renewal_in_month(ym, rows_in_month(got.data.rows, ym[1], ym[2]),
                          got.source_label)
    ELSE [answer |-> [intent |-> "fallback"], sources |-> <<>>]

\* Lines 267-330: the answer of the branches that read the dated data.
dated_answer(intent, ym, as_of_date, got) ==
    IF intent = "total"
    THEN [answer |-> [intent |-> "total", date_note |-> date_note(as_of_date),
                      amount |-> format_dollars(got.data.grand_total),
                      accounts |-> Len(got.data.rows)],
          sources |-> <<got.source_label>>]
    ELSE IF intent = "largest" /\ got.data.rows # <<>>
    THEN [answer |-> [intent |-> "largest", date_note |-> date_note(as_of_date),
                      name |-> names_of(got.data.rows)[1],
                      amount |-> format_dollars(got.data.rows[1].total_arr)],
          sources |-> <<got.source_label>>]
    ELSE IF intent = "largest"
    THEN [answer |-> [intent |-> "largest", date_note |-> NoneStr,
                      name |-> None, amount |-> 0],
          sources |-> <<>>]
    ELSE IF intent = "renewal"
    THEN renewal_in_month(ym, rows_in_month(got.data.rows, ym[1], ym[2]),
                          got.source_label)
    ELSE [answer |-> [intent |-> "fallback"], sources |-> <<>>]

----------------------------------------------------------------------------
(* Copilot: the questions asked, and what the parsers read in each *)

Questions ==
    { <<"W","h","a","t","'","s"," ","o","u","r"," ","t","o","t","a","l"," ","C","A","R","R"," ","a","s"," ","o","f"," ","M","a","r","c","h"," ","2","0","2","5","?">>,
      <<"l","a","r","g","e","s","t"," ","c","u","s","t","o","m","e","r"," ","l","a","s","t"," ","m","o","n","t","h">>,
      <<"T","o","t","a","l"," ","A","R","R"," ","v","s"," ","p","l","a","n">>,
      <<" "," ","W","h","a","t","'","s"," ","o","u","r"," ","t","o","t","a","l"," ","C","A","R","R","?"," "," ">>,
      <<"H","o","w"," ","d","i","d"," ","C","A","R","R"," ","c","h","a","n","g","e"," ","t","o","d","a","y","?">>,
      <<"W","h","a","t"," ","C","A","R","R"," ","i","s"," ","u","p"," ","f","o","r"," ","r","e","n","e","w","a","l"," ","i","n"," ","M","a","r","c","h"," ","'","2","5","?">>,
      <<"R","e","n","e","w","a","l","s"," ","J","u","n","e"," ","2","0","2","5">>,
      <<"R","e","v","e","n","u","e"," ","a","s"," ","o","f"," ","2","0","2","5","-","0","3","-","3","1">>,
      <<"l","a","r","g","e","s","t"," ","c","u","s","t","o","m","e","r"," ","o","n"," ","2","0","2","5","-","0","3","-","3","0">>,
      <<"h","e","l","l","o">>,
      <<"T","o","t","a","l"," ","C","A","R","R"," ","a","s"," ","o","f"," ","2","0","2","5","-","0","2","-","3","0">>,
      <<"B","i","g","g","e","s","t"," ","a","c","c","o","u","n","t"," ","l","a","s","t"," ","m","o","n","t","h"," ","a","s"," ","o","f"," ","2","0","2","5","-","0","3","-","3","0">>,
      <<"W","h","o"," ","i","s"," ","o","u","r"," ","l","a","r","g","e","s","t"," ","c","u","s","t","o","m","e","r","?">> }

\* Lines 519-526 and 543: "last month" first (the last day of the month
\* before today), then the date the text names.
reference_date(reference, today) ==
    IF reference.last_month
    THEN PrevDate(<<today[1], today[2], 1>>)
    ELSE reference.date

\* _parse_date_from_question(q, today)
parse_date_from_question(q, today) == reference_date(date_reference(q), today)

\* What copilot reads in q = body.question.strip(): the branch that answers
\* it, the renewal month and the date reference.
question_reading(q) ==
    [intent |-> intent_of(q),
     ym |-> parse_renewal_month_from_question(q),
     reference |-> date_reference(q)]

\* The readings of the questions asked, computed once.
QuestionReadings ==
    [q \in {strip(question) : question \in Questions} |-> question_reading(q)]

\* CopilotResponse(answer=..., sources=...), with the question it answers.
copilot_response(question, r) ==
    [kind |-> "copilot", question |-> question,
     answer |-> r.answer, sources |-> r.sources]

\* Lines 236-330: the branch taken, on the date the question resolves to.
copilot_dispatch(question, intent, ym, as_of_date, accs, opps, lines, snapshots, today) ==
    copilot_response(question,
        IF intent = "delta"
        THEN delta_answer(accs, opps, lines, snapshots, today)
        ELSE Bind(get_arr_data_for_date(accs, opps, lines, snapshots, as_of_date),
                  LAMBDA got : dated_answer(intent, ym, as_of_date, got)))

copilot_read(question, reading, accs, opps, lines, snapshots, today) ==
    copilot_dispatch(question, reading.intent, reading.ym,
                     reference_date(reading.reference, today),
                     accs, opps, lines, snapshots, today)

\* POST /api/copilot: the response to body.question.
copilot(question, accs, opps, lines, snapshots, today) ==
    Bind(QuestionReadings[strip(question)],
         LAMBDA reading :
             copilot_read(question, reading, accs, opps, lines, snapshots, today))

----------------------------------------------------------------------------
(* Requests and the passing of days *)

\* POST /api/copilot
Copilot ==
    /\ \E question \in Questions :
          response' = copilot(question, accounts, opportunities, line_items,
                              eod_snapshots, today_est(now))
    /\ UNCHANGED <<accounts, opportunities, line_items, eod_snapshots, now,
                   last_sync_hour, last_eod_date, sync_log, eod_log, last_poll,
                   loop, eod_read>>

\* POST /api/sync/salesforce with Salesforce returning `fetch`; get_db commits
\* the session when the handler returns.
sync_salesforce(fetch) ==
    \E result \in {run_salesforce_sync(Store, fetch)} :
    /\ accounts' = endpoint_commit(Store, result).accounts
    /\ opportunities' = endpoint_commit(Store, result).opportunities
    /\ line_items' = endpoint_commit(Store, result).line_items
    /\ response' = [kind |-> "sync", ok |-> result.ok, raised |-> result.raised]
    /\ UNCHANGED <<eod_snapshots, now, last_sync_hour, last_eod_date, sync_log, eod_log, last_poll,
                   loop, eod_read>>

AcmeAccount == [Id |-> "A1", Segment__c |-> <<" ","E","n","t","e","r","p","r","i","s","e"," ">>]

AcmeRenewal == OppRec("O1", "Negotiation", <<"R","e","n","e","w","a","l">>, "A1", "Acme", <<"2","0","2","5","-","0","3","-","3","1">>)

AcmeIncRenewal == OppRec("O2", "Proposal", <<"R","e","n","e","w","a","l">>, "A1", "Acme Inc", <<"2","0","2","5","-","0","6","-","3","0">>)

\* What Salesforce returns to the syncs of the copilot runs: one renewal of
\* 300 a month, then a second account's renewal of 1000 a month beside it, and
\* a fetch whose line item query fails.
CopilotFetches ==
    { [configured |-> TRUE, fail_at |-> "none",
       account_records |-> <<AcmeAccount>>,
       opp_records |-> <<AcmeRenewal>>,
       line_records |-> <<LineRec("O1", <<"P","r","e","m","i","u","m"," ","S","u","p","p","o","r","t">>, NoneStr, <<300000>>)>>],
      [configured |-> TRUE, fail_at |-> "none",
       account_records |-> <<AcmeAccount>>,
       opp_records |-> <<AcmeRenewal, AcmeIncRenewal>>,
       line_records |-> <<LineRec("O1", <<"P","r","e","m","i","u","m"," ","S","u","p","p","o","r","t">>, NoneStr, <<300000>>),
                          LineRec("O2", <<"D","a","z","o","s"," ","C","R","M"," ","P","l","a","t","f","o","r","m"," ","(","L","e","g","a","c","y",")">>, NoneStr, <<1000000>>)>>],
      [configured |-> TRUE, fail_at |-> "line_items",
       account_records |-> <<AcmeAccount>>,
       opp_records |-> <<AcmeRenewal>>,
       line_records |-> <<>>] }

SyncSalesforce == \E fetch \in CopilotFetches : sync_salesforce(fetch)

MaxDays == 3

CopilotStart == [date |-> <<2025, 3, 30>>, sod |-> 86399, dst |-> TRUE]

RECURSIVE DateAdd(_, _)
DateAdd(d, n) == IF n = 0 THEN d ELSE NextDate(DateAdd(d, n - 1))

\* A day passes (the runs cover MaxDays days).
NextDay ==
    /\ DateAfter(DateAdd(CopilotStart.date, MaxDays - 1), now.date)
    /\ now' = [now EXCEPT !.date = NextDate(@)]
    /\ response' = NoResponse
    /\ UNCHANGED <<accounts, opportunities, line_items, eod_snapshots,
                   last_sync_hour, last_eod_date, sync_log, eod_log, last_poll,
                   loop, eod_read>>

----------------------------------------------------------------------------
(* Specification of the copilot: syncs, daily snapshots and questions *)

InitCopilot ==
    /\ accounts = <<>>
    /\ opportunities = <<>>
    /\ line_items = <<>>
    /\ eod_snapshots = {}
    /\ now = CopilotStart
    /\ last_sync_hour = <<>>
    /\ last_eod_date = NoneDate
    /\ sync_log = <<>>
    /\ eod_log = <<>>
    /\ last_poll = NoPoll
    /\ loop = "running"
    /\ eod_read = IdleRead
    /\ response = NoResponse

NextCopilot == SyncSalesforce \/ TakeEodSnapshot \/ NextDay \/ Copilot

SpecCopilot == InitCopilot /\ [][NextCopilot]_vars

----------------------------------------------------------------------------
(* Claims C6-C9: the copilot's response *)

IsCopilotResponse == response.kind = "copilot"

\* body.question.strip() of the request answered.
AskedQuestion == IF IsCopilotResponse THEN strip(response.question) ELSE <<>>

\* The reference date the question resolves to today, NoneDate if none.
ResolvedDate == parse_date_from_question(AskedQuestion, today_est(now))

\* The intent whose answer the response carries.
AnsweredIntent == IF IsCopilotResponse THEN response.answer.intent ELSE "none"

SnapshotsOnOrBefore(d) == {s \in eod_snapshots : ~DateAfter(s.snapshot_date, d)}

\* The stored snapshot with the greatest date key that is not after d.
GreatestOnOrBefore(d) ==
    CHOOSE s \in SnapshotsOnOrBefore(d) :
        \A t \in SnapshotsOnOrBefore(d) : ~DateAfter(t.snapshot_date, s.snapshot_date)

\* The rows of data whose subscription_end_date is in the month ym.
RowsEndingIn(data, ym) ==
    SelectSeq(data.rows, LAMBDA row :
        /\ row.subscription_end_date # NoneStr
        /\ SubSeq(row.subscription_end_date, 1, 7)
             = SubSeq(isoformat(<<ym[1], ym[2], 1>>), 1, 7))

\* The figures of the answer are those of `data`: the total and account count,
\* the top row's name and ARR, or the ARR up for renewal in the month asked.
AnswerReports(answer, data) ==
    /\ answer.intent = "total" =>
          /\ answer.amount = format_dollars(data.grand_total)
          /\ answer.accounts = Len(data.rows)
    /\ answer.intent = "largest" =>
          IF data.rows = <<>> THEN answer.name = None
          ELSE /\ answer.name = data.rows[1].account_name
               /\ answer.amount = format_dollars(data.rows[1].total_arr)
    /\ answer.intent = "renewal" =>
          LET ym == parse_renewal_month_from_question(AskedQuestion)
              in_month == RowsEndingIn(data, ym)
          IN /\ answer.amount
                  = format_dollars(SumSeq([i \in DOMAIN in_month |-> in_month[i].total_arr]))
             /\ answer.accounts = Len(in_month)

\* Some entry of the sources names the date d in ISO form.
SourcesNameDate(d) ==
    \E i \in DOMAIN response.sources : contains(isoformat(d), response.sources[i])

\* Some entry of the sources notes that no snapshot was found for the date.
SourcesNoteNoSnapshot ==
    \E i \in DOMAIN response.sources :
        contains(<<"n","o"," ","s","n","a","p","s","h","o","t"," ","f","o","r"," ","t","h","a","t"," ","d","a","t","e">>, response.sources[i])

\* The answer is the no-data message of the largest-customer intent.
NoCustomerData == AnsweredIntent = "largest" /\ response.answer.name = None

MarchQuestion == <<"W","h","a","t","'","s"," ","o","u","r"," ","t","o","t","a","l"," ","C","A","R","R"," ","a","s"," ","o","f"," ","M","a","r","c","h"," ","2","0","2","5","?">>

\* The scenario of C6: the March question with a snapshot dated 2025-03-31
\* stored: the answer reports that snapshot's grand_total and the sources
\* mention 2025-03-31.
MarchScenario ==
    (/\ IsCopilotResponse
     /\ response.question = MarchQuestion
     /\ \E s \in eod_snapshots : s.snapshot_date = <<2025, 3, 31>>)
    => /\ \A s \in eod_snapshots :
             s.snapshot_date = <<2025, 3, 31>> =>
                 response.answer.amount
                   = format_dollars(arr_from_snapshot_payload(s.data_json).grand_total)
       /\ SourcesNameDate(<<2025, 3, 31>>)

\* C6 (as stated): whenever the question resolves to a reference date d, the
\* answer is computed from the stored snapshot with the greatest date not after
\* d, never from live data, and the sources name that snapshot's date.
C6_DatedQuestionAnsweredFromSnapshot ==
    IsCopilotResponse =>
        LET d == ResolvedDate
            found == GreatestOnOrBefore(d)
            data == arr_from_snapshot_payload(found.data_json)
        IN d # NoneDate =>
              /\ SnapshotsOnOrBefore(d) # {}
              /\ AnswerReports(response.answer, data)
              /\ SourcesNameDate(found.snapshot_date)

\* C6 (amended): for a total, largest-customer or renewal answer to a question
\* that resolves to a reference date d, when some stored snapshot is dated on or
\* before d, the figures are those of the snapshot with the greatest such date
\* (not of live data, not of a later snapshot), and the sources, which only the
\* no-data message lacks, are that snapshot's label with its date; the March
\* scenario holds.
C6_LatestSnapshotOnOrBefore ==
    /\ AnsweredIntent \in {"total", "largest", "renewal"} =>
          LET d == ResolvedDate
              found == GreatestOnOrBefore(d)
              data == arr_from_snapshot_payload(found.data_json)
          IN (d # NoneDate /\ SnapshotsOnOrBefore(d) # {}) =>
                /\ AnswerReports(response.answer, data)
                /\ ~NoCustomerData =>
                      /\ response.sources = <<snapshot_label(found.snapshot_date)>>
                      /\ SourcesNameDate(found.snapshot_date)
    /\ MarchScenario

\* The March question answered from the snapshot of 2025-03-31 while an
\* earlier snapshot and live data show other totals.
C6_Witness ==
    /\ IsCopilotResponse
    /\ response.question = MarchQuestion
    /\ \E s, t \in eod_snapshots :
          /\ s.snapshot_date = <<2025, 3, 31>>
          /\ t.snapshot_date = <<2025, 3, 30>>
          /\ response.answer.amount
               = format_dollars(arr_from_snapshot_payload(s.data_json).grand_total)
          /\ response.answer.amount
               # format_dollars(arr_from_snapshot_payload(t.data_json).grand_total)
    /\ response.answer.amount # format_dollars(LiveArr.grand_total)
    /\ response.sources = <<<<"E","O","D"," ","s","n","a","p","s","h","o","t"," ","(","2","0","2","5","-","0","3","-","3","1",")">>>>

LastMonthQuestion == <<"l","a","r","g","e","s","t"," ","c","u","s","t","o","m","e","r"," ","l","a","s","t"," ","m","o","n","t","h">>

\* C7 (as stated): whenever the question resolves to a reference date and no
\* snapshot is stored for that date, the answer is computed from live data and
\* the sources note that no snapshot was found.
C7_NoSnapshotForDateUsesLive ==
    IsCopilotResponse =>
        LET d == ResolvedDate
            live == LiveArr
        IN (d # NoneDate /\ \A s \in eod_snapshots : s.snapshot_date # d) =>
              /\ AnswerReports(response.answer, live)
              /\ SourcesNoteNoSnapshot

\* C7 (amended): for a total, largest-customer or renewal answer to a question
\* that resolves to a reference date d, when no stored snapshot is dated on or
\* before d, the figures are those of live data and the sources, which only the
\* no-data message lacks, are the note that no snapshot was found for that date.
C7_NoSnapshotOnOrBeforeUsesLive ==
    AnsweredIntent \in {"total", "largest", "renewal"} =>
        LET d == ResolvedDate
            live == LiveArr
        IN (d # NoneDate /\ SnapshotsOnOrBefore(d) = {}) =>
              /\ AnswerReports(response.answer, live)
              /\ ~NoCustomerData =>
                    /\ Len(response.sources) = 1
                    /\ SourcesNoteNoSnapshot

\* "largest customer last month" asked in March 2025 with snapshots stored,
\* all dated after 2025-02-28: the largest live customer, with the note.
C7_Witness ==
    /\ IsCopilotResponse
    /\ response.question = LastMonthQuestion
    /\ ResolvedDate = <<2025, 2, 28>>
    /\ eod_snapshots # {}
    /\ response.answer.name = "Acme Inc"
    /\ response.answer.amount = 12000
    /\ response.sources = <<NO_SNAPSHOT_LABEL>>

\* The intents whose trigger the question satisfies; the fallback has none.
SatisfiedIntents(q) ==
    {"fallback"}
      \cup {x \in {"delta"} : asks_arr_change(lower(q))}
      \cup {x \in {"total"} : asks_total(lower(q))}
      \cup {x \in {"largest"} : asks_largest(lower(q))}
      \cup {x \in {"renewal"} : asks_renewal_month(q)}

IntentOrder == <<"delta", "total", "largest", "renewal", "fallback">>

\* C8: the response answers with the earliest intent, in the order ARR-delta,
\* total ARR, largest customer, renewal-in-month, fallback, whose trigger the
\* lower-cased question satisfies.
C8_FirstMatchingIntentAnswers ==
    IsCopilotResponse =>
        \E i \in DOMAIN IntentOrder :
            /\ IntentOrder[i] = response.answer.intent
            /\ IntentOrder[i] \in SatisfiedIntents(AskedQuestion)
            /\ \A j \in 1..(i - 1) : IntentOrder[j] \notin SatisfiedIntents(AskedQuestion)

\* A question that satisfies the triggers of the ARR-delta and the total ARR
\* intents is answered by the ARR-delta intent.
C8_Witness ==
    /\ IsCopilotResponse
    /\ response.question = <<"T","o","t","a","l"," ","A","R","R"," ","v","s"," ","p","l","a","n">>
    /\ {"delta", "total"} \subseteq SatisfiedIntents(AskedQuestion)
    /\ response.answer.intent = "delta"
    /\ response.answer.compared

\* C9: every copilot response carries a non-empty sources list, each entry of
\* which names the basis used: the live customer overview or the date of a
\* stored snapshot.
C9_SourcesNameTheBasis ==
    IsCopilotResponse =>
        /\ response.sources # <<>>
        /\ \A i \in DOMAIN response.sources :
              \/ response.sources[i] \in {LIVE_LABEL, NO_SNAPSHOT_LABEL}
              \/ \E s \in eod_snapshots : response.sources[i] = snapshot_label(s.snapshot_date)

----------------------------------------------------------------------------
(* The scheduler loop: _scheduled_salesforce_jobs *)

\* America/New_York leaves daylight time on 2025-11-02: the wall clock goes
\* from 01:59:59 EDT to 01:00:00 EST, so the hour 1 of that date comes twice.
FallBackDate == <<2025, 11, 2>>

\* The wall clock n seconds of real time after t (n of at most an hour or so).
Advance(t, n) ==
    IF t.dst /\ t.date = FallBackDate /\ t.sod + n >= 7200
    THEN [date |-> t.date, sod |-> t.sod + n - 3600, dst |-> FALSE]
    ELSE IF t.sod + n >= 86400
    THEN [date |-> NextDate(t.date), sod |-> t.sod + n - 86400, dst |-> t.dst]
    ELSE [t EXCEPT !.sod = t.sod + n]

\* now_est.hour, now_est.minute, now_est.second
hour_of(t) == t.sod \div 3600

minute_of(t) == (t.sod % 3600) \div 60

second_of(t) == t.sod % 60

run_hourly(t) == minute_of(t) = 59 /\ second_of(t) >= 59

run_eod(t) == hour_of(t) = 23 /\ minute_of(t) = 59 /\ second_of(t) >= 59

\* (today_est, now_est.hour)
hour_key(t) == <<today_est(t), hour_of(t)>>

\* A guard that lets every poll of the trigger window through.
hourly_due_always(last, key) == TRUE

\* `last_sync_hour is None or last_sync_hour != (today_est, now_est.hour)`
hourly_due(last, key) == last = <<>> \/ last # key

\* `last_eod_date is None or last_eod_date != today_est`
eod_due(last, today) == last = NoneDate \/ last # today

\* The hourly half of one iteration polled at t, the resync taking `work`
\* seconds: the committed tables, the marker, the clock afterwards and what
\* the poll did about the resync ("none" outside the trigger window).
hourly_step(store, last, t, fetch, work) ==
    IF run_hourly(t) /\ hourly_due(last, hour_key(t))
    THEN Bind(run_salesforce_sync(store, fetch), LAMBDA result :
            [store |-> scheduler_commit(store, result),
             last |-> IF result.ok THEN hour_key(t) ELSE last,
             clock |-> Advance(t, work),
             outcome |-> IF result.ok THEN "ok"
                         ELSE IF result.raised THEN "raised" ELSE "failed"])
    ELSE [store |-> store, last |-> last, clock |-> t,
          outcome |-> IF run_hourly(t) THEN "skipped" ELSE "none"]

\* The EOD half of the iteration polled at t, reached when the clock shows
\* `clock`: the snapshot is dated by the clock, the marker by the poll; an
\* exception (`committed` false) rolls back and leaves the marker.  An
\* exception raised by the resync has left the try block (lines 754-755)
\* before this half.
eod_step(snapshots, store, last, t, clock, committed, hourly_outcome) ==
    IF hourly_outcome = "raised"
    THEN [snapshots |-> snapshots, last |-> last, replaced |-> FALSE,
          outcome |-> IF run_eod(t) THEN "unreached" ELSE "none"]
    ELSE IF run_eod(t) /\ eod_due(last, today_est(t))
    THEN IF committed
         THEN [snapshots |-> take_salesforce_eod_snapshot(snapshots, store, clock),
               last |-> today_est(t),
               replaced |-> \E s \in snapshots : s.snapshot_date = today_est(clock),
               outcome |-> "ok"]
         ELSE [snapshots |-> snapshots, last |-> last, replaced |-> FALSE,
               outcome |-> "failed"]
    ELSE [snapshots |-> snapshots, last |-> last, replaced |-> FALSE,
          outcome |-> IF run_eod(t) THEN "skipped" ELSE "none"]

\* What a poll adds to the history of an action's trigger windows.
LogOf(key, outcome) ==
    IF outcome = "none" THEN <<>> ELSE <<[key |-> key, outcome |-> outcome]>>

\* asyncio.sleep(30)
POLL_SECONDS == 30

\* How long a resync may take, in seconds.
SyncSeconds == {0, 10, POLL_SECONDS}

\* One renewal of 300 a month.
AcmeFetch ==
    [configured |-> TRUE, fail_at |-> "none",
     account_records |-> <<AcmeAccount>>,
     opp_records |-> <<AcmeRenewal>>,
     line_records |-> <<LineRec("O1", <<"P","r","e","m","i","u","m"," ","S","u","p","p","o","r","t">>, NoneStr, <<300000>>)>>]

\* The source is not configured, or one of the three queries fails, the later
\* two also after a query that returned no account.
FailingFetches ==
    {[AcmeFetch EXCEPT !.configured = FALSE]}
        \cup {[AcmeFetch EXCEPT !.fail_at = step] :
                 step \in {"accounts", "opportunities", "line_items"}}
        \cup {[AcmeFetch EXCEPT !.fail_at = step, !.account_records = <<>>] :
                 step \in {"opportunities", "line_items"}}

\* One record of a table carries a field that is no number.
RaisingFetches ==
    { [AcmeFetch EXCEPT !.account_records =
          <<[AnnualRevenue |-> MALFORMED] @@ AcmeAccount>>],
      [AcmeFetch EXCEPT !.opp_records = <<[Amount |-> MALFORMED] @@ AcmeRenewal>>],
      [AcmeFetch EXCEPT !.line_records =
          <<LineRec("O1", <<"P","r","e","m","i","u","m"," ","S","u","p","p","o","r","t">>, NoneStr, MALFORMED)>>] }

\* What Salesforce returns to the loop's resyncs and to the endpoint beside it.
SchedFetches == {AcmeFetch} \cup FailingFetches \cup RaisingFetches

\* The runs cover MaxWindows trigger windows of the hourly resync.
MaxWindows == 4

\* The loop starts half a minute before the last trigger window of
\* 2025-11-01, the eve of the return to standard time.
SchedStart == [date |-> <<2025, 11, 1>>, sod |-> 86369, dst |-> TRUE]

\* The whole hours of real time from the start's hour to the hour of t, on
\* the start's date, the 25-hour date after it and the date after that.
ElapsedHours(t) ==
    IF t.date = SchedStart.date THEN hour_of(t) - hour_of(SchedStart)
    ELSE IF t.date = FallBackDate
    THEN 24 - hour_of(SchedStart) + hour_of(t) + (IF t.dst THEN 0 ELSE 1)
    ELSE 49 - hour_of(SchedStart) + hour_of(t)

\* An unhandled exception of the resync would end the task.
loop_after_unhandled(hourly_outcome, eod_outcome) ==
    IF hourly_outcome = "raised" THEN "died" ELSE "running"

\* Lines 752-757: CancelledError apart, an exception of the iteration is
\* passed over and the loop goes on to sleep.
loop_after(hourly_outcome, eod_outcome) == "running"

\* One iteration of the loop: the poll, the hourly resync, the EOD snapshot
\* and the sleep.
Poll ==
    /\ loop = "running"
    /\ ElapsedHours(now) < MaxWindows
    /\ \E fetch \in SchedFetches, work \in SyncSeconds, committed \in BOOLEAN :
       \E hourly \in {hourly_step(Store, last_sync_hour, now, fetch, work)} :
       \E eod \in {eod_step(eod_snapshots, hourly.store, last_eod_date, now,
                            hourly.clock, committed, hourly.outcome)} :
          /\ accounts' = hourly.store.accounts
          /\ opportunities' = hourly.store.opportunities
          /\ line_items' = hourly.store.line_items
          /\ last_sync_hour' = hourly.last
          /\ sync_log' = sync_log \o LogOf(hour_key(now), hourly.outcome)
          /\ eod_snapshots' = eod.snapshots
          /\ last_eod_date' = eod.last
          /\ eod_log' = eod_log \o LogOf(today_est(now), eod.outcome)
          /\ last_poll' = [at |-> now, hourly |-> hourly.outcome,
                           eod |-> eod.outcome, replaced |-> eod.replaced]
          /\ loop' = loop_after(hourly.outcome, eod.outcome)
          /\ now' = Advance(hourly.clock, POLL_SECONDS)
          /\ response' = NoResponse
          /\ UNCHANGED eod_read

\* lifespan's shutdown (lines 54-58): task.cancel(), then the task is awaited.
Cancel ==
    /\ loop = "running"
    /\ loop' = "cancelling"
    /\ response' = NoResponse
    /\ UNCHANGED <<accounts, opportunities, line_items, eod_snapshots, now,
                   last_sync_hour, last_eod_date, sync_log, eod_log, last_poll,
                   eod_read>>

\* CancelledError is raised at the await the loop is suspended in: the sleep
\* (line 757) is outside the try block and line 752-753 re-raises it inside.
Cancelled ==
    /\ loop = "cancelling"
    /\ loop' = "cancelled"
    /\ response' = NoResponse
    /\ UNCHANGED <<accounts, opportunities, line_items, eod_snapshots, now,
                   last_sync_hour, last_eod_date, sync_log, eod_log, last_poll,
                   eod_read>>

\* POST /api/sync/salesforce beside the loop.
SchedSync == \E fetch \in SchedFetches : sync_salesforce(fetch)

InitSched ==
    /\ accounts = <<>>
    /\ opportunities = <<>>
    /\ line_items = <<>>
    /\ eod_snapshots = {}
    /\ now = SchedStart
    /\ last_sync_hour = <<>>
    /\ last_eod_date = NoneDate
    /\ sync_log = <<>>
    /\ eod_log = <<>>
    /\ last_poll = NoPoll
    /\ loop = "running"
    /\ eod_read = IdleRead
    /\ response = NoResponse

NextSched == Poll \/ Cancel \/ Cancelled

SpecSched == InitSched /\ [][NextSched]_vars

\* The loop beside the endpoint: the last hour of the runs, from 01:00:29 EST
\* of the 25-hour date.
SyncStart == [date |-> FallBackDate, sod |-> 3629, dst |-> FALSE]

InitSync ==
    /\ accounts = <<>>
    /\ opportunities = <<>>
    /\ line_items = <<>>
    /\ eod_snapshots = {}
    /\ now = SyncStart
    /\ last_sync_hour = <<>>
    /\ last_eod_date = NoneDate
    /\ sync_log = <<>>
    /\ eod_log = <<>>
    /\ last_poll = NoPoll
    /\ loop = "running"
    /\ eod_read = IdleRead
    /\ response = NoResponse

NextSync == Poll \/ SchedSync

SpecSync == InitSync /\ [][NextSync]_vars

----------------------------------------------------------------------------
(* Claim C10: the scheduled actions and their keys *)

\* In `log`, after a poll whose action succeeded for a key, every poll of a
\* trigger window with that key skipped the action.
OncePerKey(log) ==
    \A i, j \in DOMAIN log :
        (i < j /\ log[i].outcome = "ok" /\ log[j].key = log[i].key)
            => log[j].outcome = "skipped"

\* C10: each scheduled action fires successfully at most once per key: after an
\* hourly resync has succeeded for a (date, hour), no later poll in that (date,
\* hour) starts another resync, and after a daily snapshot has succeeded for a
\* date, no later poll on that date takes another snapshot.
C10_AtMostOncePerKey == OncePerKey(sync_log) /\ OncePerKey(eod_log)

\* The resync succeeded at 01:59:59 EDT of 2025-11-02 and the poll at 01:59:59
\* EST, in the same (date, hour), started none; the snapshot of 2025-11-01 was
\* taken.
C10_Witness ==
    /\ \E i, j \in DOMAIN sync_log :
          /\ i < j
          /\ sync_log[i] = [key |-> <<FallBackDate, 1>>, outcome |-> "ok"]
          /\ sync_log[j] = [key |-> <<FallBackDate, 1>>, outcome |-> "skipped"]
    /\ \E i \in DOMAIN eod_log : eod_log[i].outcome = "ok"
    /\ last_sync_hour = <<FallBackDate, 1>>
    /\ ~now.dst

\* ---------------------------------------------------------------------------
\* Claims C11-C13 and C17: the scheduler loop
\* ---------------------------------------------------------------------------

\* The (date, hour) of the k-th hour of real time from the start's hour; the
\* hour repeated on the 25-hour date has one key.
KeyAt(k) ==
    IF k = 0 THEN <<SchedStart.date, hour_of(SchedStart)>>
    ELSE IF k <= 2 THEN <<FallBackDate, k - 1>>
    ELSE <<FallBackDate, k - 2>>

\* The resync was started (it succeeded, returned ok=false or raised).
Started(outcome) == outcome \in {"ok", "failed", "raised"}

\* The snapshot was attempted (it was committed or rolled back).
Attempted(outcome) == outcome \in {"ok", "failed"}

\* C11: while the loop runs, every (date, hour) that has passed got an hourly
\* resync started in it and every date that has passed got a daily snapshot
\* attempted on it; no hour and no day is skipped.
C11_EveryHourAndDayFires ==
    /\ \A k \in 0..(ElapsedHours(now) - 1) :
          \E i \in DOMAIN sync_log :
             sync_log[i].key = KeyAt(k) /\ Started(sync_log[i].outcome)
    /\ now.date # SchedStart.date =>
          \E i \in DOMAIN eod_log :
             eod_log[i].key = SchedStart.date /\ Attempted(eod_log[i].outcome)

\* C12: a resync that fails leaves the hourly marker unchanged, a snapshot
\* that fails leaves the daily marker unchanged, and the poll after a failed
\* action attempts that action again.
C12_FailedActionRetriedNextPoll ==
    [][last_poll' # last_poll =>
          /\ last_poll'.hourly \in {"failed", "raised"}
                => last_sync_hour' = last_sync_hour
          /\ last_poll'.eod = "failed" => last_eod_date' = last_eod_date
          /\ last_poll.hourly \in {"failed", "raised"}
                => Started(last_poll'.hourly)
          /\ last_poll.eod = "failed" => Attempted(last_poll'.eod)]_vars

\* A poll in which the resync or the snapshot failed.
FailingPoll(poll) ==
    poll.hourly \in {"failed", "raised"} \/ poll.eod = "failed"

\* C13: no failure of the resync or of the snapshot ends the loop: after a
\* failing poll the loop has slept and is running.  The loop leaves "running"
\* only by the cancellation of its task, and a cancellation requested is
\* followed by no further poll and by nothing but the end of the task.
C13_LoopEndsOnlyByCancellation ==
    /\ [](loop \in {"running", "cancelling", "cancelled"})
    /\ [][/\ (last_poll' # last_poll /\ FailingPoll(last_poll'))
                => /\ loop' = "running"
                   /\ \E work \in SyncSeconds :
                         now' = Advance(Advance(now, work), POLL_SECONDS)
          /\ loop' # loop
                => \/ loop = "running" /\ loop' = "cancelling"
                   \/ loop = "cancelling" /\ loop' = "cancelled"
          /\ loop # "running" => last_poll' = last_poll]_vars

\* A resync raised and a snapshot failed, later polls ran the resync again, and
\* the loop ended by cancellation.
C13_Witness ==
    /\ loop = "cancelled"
    /\ \E i, j \in DOMAIN sync_log :
          i < j /\ sync_log[i].outcome = "raised" /\ sync_log[j].outcome = "ok"
    /\ \E i \in DOMAIN eod_log : eod_log[i].outcome = "failed"

\* C17: at a poll in the 23:59:59 window the daily snapshot is attempted (or
\* has been taken for the date) whatever the resync of that poll did.
C17_SnapshotAttemptedWhateverResync ==
    run_eod(last_poll.at) => last_poll.eod \in {"ok", "failed", "skipped"}

----------------------------------------------------------------------------
(* Specification of the EOD snapshot read step by step beside the endpoint *)

\* Lines 703-707: the clock is read and the accounts are selected.
SnapshotBegin ==
    /\ eod_read.pc = "idle"
    /\ eod_read' = [pc |-> "accounts", date |-> today_est(now), accounts |-> accounts]
    /\ response' = NoResponse
    /\ UNCHANGED <<accounts, opportunities, line_items, eod_snapshots, now,
                   last_sync_hour, last_eod_date, sync_log, eod_log, last_poll,
                   loop>>

\* Lines 708-709: the opportunities are selected.
SnapshotReadOpportunities ==
    /\ eod_read.pc = "accounts"
    /\ eod_read' = [pc |-> "opportunities", date |-> eod_read.date,
                    accounts |-> eod_read.accounts, opportunities |-> opportunities]
    /\ response' = NoResponse
    /\ UNCHANGED <<accounts, opportunities, line_items, eod_snapshots, now,
                   last_sync_hour, last_eod_date, sync_log, eod_log, last_poll,
                   loop>>

\* Lines 710-720 and 748-751: the line items are selected, the row of the date
\* is replaced by the payload of what was read and the session is committed,
\* or an exception rolls it back.
SnapshotFinish ==
    /\ eod_read.pc = "opportunities"
    /\ \E committed \in BOOLEAN :
          /\ eod_snapshots' =
                IF committed
                THEN store_snapshot(eod_snapshots, eod_read.date,
                                    snapshot_payload(eod_read.accounts,
                                                     eod_read.opportunities,
                                                     line_items))
                ELSE eod_snapshots
          /\ last_eod_date' = IF committed THEN today_est(now) ELSE last_eod_date
          /\ last_poll' =
                [at |-> now, hourly |-> "none",
                 eod |-> IF committed THEN "ok" ELSE "failed",
                 replaced |-> committed /\ \E s \in eod_snapshots :
                                               s.snapshot_date = eod_read.date]
    /\ eod_read' = IdleRead
    /\ response' = NoResponse
    /\ UNCHANGED <<accounts, opportunities, line_items, now, last_sync_hour,
                   sync_log, eod_log, loop>>

\* POST /api/sync/salesforce while a snapshot may be in progress.
SnapshotSync == sync_salesforce(AcmeFetch)

InitSnapshot ==
    /\ accounts = <<>>
    /\ opportunities = <<>>
    /\ line_items = <<>>
    /\ eod_snapshots = {}
    /\ now = CopilotStart
    /\ last_sync_hour = <<>>
    /\ last_eod_date = NoneDate
    /\ sync_log = <<>>
    /\ eod_log = <<>>
    /\ last_poll = NoPoll
    /\ loop = "running"
    /\ eod_read = IdleRead
    /\ response = NoResponse

NextSnapshot ==
    \/ SnapshotBegin
    \/ SnapshotReadOpportunities
    \/ SnapshotFinish
    \/ SnapshotSync
    \/ NextDay

SpecSnapshot == InitSnapshot /\ [][NextSnapshot]_vars

\* ---------------------------------------------------------------------------
\* Claims C14 and C16: the EOD snapshots
\* ---------------------------------------------------------------------------

\* The rows of the snapshots dated d, and the rows of every other date.
RowsDated(snapshots, d) == {s \in snapshots : s.snapshot_date = d}
RowsNotDated(snapshots, d) == {s \in snapshots : s.snapshot_date # d}

\* C14: after any sequence of committed and rolled-back snapshots the store
\* holds at most one EOD snapshot per date; a committed snapshot leaves exactly
\* one row for its date, holding the payload it read, and every row of another
\* date as it was; a rolled-back snapshot changes no row.
C14_OneSnapshotPerDate ==
    /\ [](\A s1, s2 \in eod_snapshots :
             s1.snapshot_date = s2.snapshot_date => s1 = s2)
    /\ [][LET committing == /\ eod_read.pc = "opportunities"
                             /\ eod_read'.pc = "idle"
                             /\ last_poll'.eod = "ok"
          IN  /\ committing
                    => /\ RowsDated(eod_snapshots', eod_read.date) =
                             {[snapshot_date |-> eod_read.date,
                               data_json |-> snapshot_payload(eod_read.accounts,
                                                              eod_read.opportunities,
                                                              line_items)]}
                       /\ RowsNotDated(eod_snapshots', eod_read.date) =
                             RowsNotDated(eod_snapshots, eod_read.date)
              /\ ~committing => eod_snapshots' = eod_snapshots]_vars

\* The snapshot just committed replaced a row of its date that held another
\* payload, and a row of an earlier date is stored beside it.
C14_Witness ==
    /\ last_poll.eod = "ok"
    /\ last_poll.replaced
    /\ \E s \in eod_snapshots :
          /\ s.snapshot_date = today_est(last_poll.at)
          /\ s.data_json = snapshot_payload(accounts, opportunities, line_items)
          /\ s.data_json # snapshot_payload(<<>>, <<>>, <<>>)
    /\ \E s \in eod_snapshots :
          /\ s.snapshot_date = CopilotStart.date
          /\ s.snapshot_date # today_est(last_poll.at)
          /\ s.data_json = snapshot_payload(<<>>, <<>>, <<>>)

\* The states of the three tables that were ever committed in these runs.
CommittedStores ==
    {EmptyStore, endpoint_commit(EmptyStore, run_salesforce_sync(EmptyStore, AcmeFetch))}

\* C16: every stored EOD snapshot payload is the payload of one committed state
\* of the store: accounts, opportunities and line items of the same state.
C16_PayloadOfOneCommittedState ==
    \A s \in eod_snapshots :
       \E st \in CommittedStores :
          s.data_json = snapshot_payload(st.accounts, st.opportunities, st.line_items)

\* ---------------------------------------------------------------------------
\* Claim C15: a sync that ends with ok=false
\* ---------------------------------------------------------------------------

\* C15: a sync cycle that ends with ok=false (the source is not configured,
\* or the accounts, opportunities or line items query fails) leaves the
\* committed accounts, opportunities and line items as they were before it,
\* run by the scheduler or by the endpoint, also when the accounts had been
\* deleted and replaced in the session before the failing query.
C15_FailedSyncLeavesStore ==
    /\ [](\A fetch \in FailingFetches :
             \E result \in {run_salesforce_sync(Store, fetch)} :
                /\ ~result.ok /\ ~result.raised
                /\ endpoint_commit(Store, result) = Store
                /\ scheduler_commit(Store, result) = Store)
    /\ [][LET endpoint_failed ==
                 response'.kind = "sync" /\ ~response'.ok /\ ~response'.raised
              scheduler_failed ==
                 last_poll' # last_poll /\ last_poll'.hourly = "failed"
          IN  endpoint_failed \/ scheduler_failed
                 => /\ accounts' = accounts
                    /\ opportunities' = opportunities
                    /\ line_items' = line_items]_vars

\* The store holds a synced account, opportunity and line item after a resync
\* of the loop and then a sync of the endpoint ended with ok=false.
C15_Witness ==
    /\ response.kind = "sync" /\ ~response.ok /\ ~response.raised
    /\ last_poll.hourly = "failed"
    /\ accounts # <<>> /\ opportunities # <<>> /\ line_items # <<>>

\* ---------------------------------------------------------------------------
\* Claim C18: the precedence of the reference-date rules
\* ---------------------------------------------------------------------------

\* C18: the reference date of the question asked is the literal ISO date when
\* the text holds one, also when it says "last month" as well; otherwise the
\* last day of the month before today when it says "last month"; otherwise the
\* last day of the month it names with a year; a question matching none of
\* these resolves to no date and its answer reports the live data.
C18_IsoDateBeforeLastMonth ==
    IsCopilotResponse =>
        LET q == AskedQuestion
            today == today_est(now)
            iso == iso_date_in_question(q)
            reference == QuestionReadings[q].reference
            d == ResolvedDate
        IN  /\ iso # NoneDate => d = iso
            /\ (iso = NoneDate /\ reference.last_month)
                  => d = PrevDate(<<today[1], today[2], 1>>)
            /\ (iso = NoneDate /\ ~reference.last_month) => d = reference.date
            /\ (iso = NoneDate /\ ~reference.last_month /\ reference.date = NoneDate)
                  => AnswerReports(response.answer, LiveArr)

----------------------------------------------------------------------------
(* Specification of the month/year extraction: questions naming two months *)

\* Month names as questions spell them, and what follows them: a 4-digit
\* year, a 2-digit year with and without apostrophe, and a year out of range.
MonthWords == {<<"M","a","r","c","h">>, <<"J","a","n","u","a","r","y">>, <<"S","e","p","t">>, <<"M","a","y">>, <<"D","e","c">>}

YearWords == {<<"2","0","2","5">>, <<"'","2","6">>, <<"2","7">>, <<"1","9","9","9">>}

\* "<month> <year> to <month> <year>" after "Renewals from ".
MonthQuestions ==
    {<<"R","e","n","e","w","a","l","s"," ","f","r","o","m"," ">> \o m1 \o <<" ">> \o y1 \o <<" ","t","o"," ">> \o m2 \o <<" ">> \o y2 :
        m1 \in MonthWords, y1 \in YearWords, m2 \in MonthWords, y2 \in YearWords}

\* _parse_renewal_month_from_question is applied to the question asked.
ParseRenewalMonth ==
    /\ response.kind = "asked"
    /\ response' = [kind |-> "month", question |-> response.question,
                    ym |-> parse_renewal_month_from_question(response.question)]
    /\ UNCHANGED <<accounts, opportunities, line_items, eod_snapshots, now,
                   last_sync_hour, last_eod_date, sync_log, eod_log, last_poll,
                   loop, eod_read>>

InitMonths ==
    /\ accounts = <<>>
    /\ opportunities = <<>>
    /\ line_items = <<>>
    /\ eod_snapshots = {}
    /\ now = CopilotStart
    /\ last_sync_hour = <<>>
    /\ last_eod_date = NoneDate
    /\ sync_log = <<>>
    /\ eod_log = <<>>
    /\ last_poll = NoPoll
    /\ loop = "running"
    /\ eod_read = IdleRead
    /\ \E q \in MonthQuestions : response = [kind |-> "asked", question |-> q]

NextMonths == ParseRenewalMonth

SpecMonths == InitMonths /\ [][NextMonths]_vars

\* ---------------------------------------------------------------------------
\* Claim C19: the month that occurs first in the text
\* ---------------------------------------------------------------------------

\* The year read after the month name at position i of q_lower (from the 15
\* characters that follow it), or 0.
YearAt(name, q_lower, i) ==
    YearAfterMonth(SubSeq(q_lower, i + Len(name),
                          IF i + Len(name) + 14 < Len(q_lower)
                          THEN i + Len(name) + 14 ELSE Len(q_lower)))

\* The occurrences <<position, entry of MONTH_NAMES>> of a month name that a
\* valid year follows.
DatedMonths(q_lower) ==
    {h \in (1..Len(q_lower)) \X DOMAIN MONTH_NAMES :
        /\ h[1] \in Occurrences(MONTH_NAMES[h[2]].name, q_lower)
        /\ YearAt(MONTH_NAMES[h[2]].name, q_lower, h[1]) # 0}

\* C19: when the question mentions several months each followed by a valid
\* year, the extraction returns the year and month of the month name that
\* occurs first in the text.
C19_FirstMonthInTextWins ==
    response.kind = "month" =>
        LET q_lower == lower(response.question)
            hits == DatedMonths(q_lower)
        IN  Cardinality({MONTH_NAMES[h[2]].month : h \in hits}) > 1 =>
               \E h \in hits :
                  /\ \A g \in hits : h[1] <= g[1]
                  /\ response.ym = <<YearAt(MONTH_NAMES[h[2]].name, q_lower, h[1]),
                                     MONTH_NAMES[h[2]].month>>

\* ---------------------------------------------------------------------------
\* Claim C20: malformed fields of fetched records
\* ---------------------------------------------------------------------------

\* Salesforce returns one record with a malformed field: a revenue, an amount
\* or a total price that is no number, or a close date that is no date.
MalformedFetches ==
    RaisingFetches
        \cup {[AcmeFetch EXCEPT !.opp_records =
                  <<[AcmeRenewal EXCEPT !.CloseDate = <<"n","e","x","t"," ","w","e","e","k">>]>>]}

\* C20: a sync in which a fetched record has a malformed field ingests every
\* record, that one included, raises nothing and ends with ok=true.
C20_MalformedRecordIngested ==
    \A fetch \in MalformedFetches :
       \E result \in {run_salesforce_sync(Store, fetch)} :
          /\ result.ok
          /\ ~result.raised
          /\ Len(result.session.accounts) = Len(fetch.account_records)
          /\ Len(result.session.opportunities) = Len(fetch.opp_records)
          /\ Len(result.session.line_items) = Len(fetch.line_records)

\* ---------------------------------------------------------------------------
\* Claims C23-C27 and C30: the rows of the aggregation result
\* ---------------------------------------------------------------------------

\* The aggregation results with the opportunities, line items and accounts
\* they were computed from, and the opportunities the aggregation took for
\* open renewals: live, and from every stored snapshot.
ArrRuns ==
    {[result |-> LiveArr, accounts |-> accounts, opportunities |-> opportunities,
      line_items |-> line_items, renewals |-> live_renewal_opps(opportunities),
      basis |-> "live"]}
    \cup {[result |-> arr_from_snapshot_payload(s.data_json),
           accounts |-> s.data_json.accounts,
           opportunities |-> s.data_json.opportunities,
           line_items |-> s.data_json.opportunity_line_items,
           renewals |-> snapshot_renewal_opps(s.data_json.opportunities),
           basis |-> "snapshot"] : s \in eod_snapshots}

\* The positions of the line items counted for the row: those on a renewal of
\* the row's account id and name whose product name is usable and not excluded.
CountedFor(run, row) ==
    {i \in DOMAIN run.line_items :
        /\ \E k \in DOMAIN run.renewals :
              /\ run.renewals[k].sf_id = run.line_items[i].opportunity_sf_id
              /\ run.renewals[k].account_id = row.account_id
              /\ (IF Truthy(run.renewals[k].account_name)
                  THEN run.renewals[k].account_name ELSE EM_DASH) = row.account_name
        /\ NormalizedName(run.line_items[i].product_name) # <<>>
        /\ ~IsExcluded(run.line_items[i].product_name)
        /\ ~IsExcluded(NormalizedName(run.line_items[i].product_name))}

\* The position at which the row's account was first seen.
FirstSeen(run, row) ==
    CHOOSE i \in CountedFor(run, row) : \A j \in CountedFor(run, row) : i <= j

\* C23: the rows of every result are ordered by total_arr, greatest first;
\* rows with equal total_arr are in the order their accounts were first seen;
\* the first row, which the largest-customer intent reports, has a total_arr
\* that no other row exceeds.
C23_RowsSortedStable ==
    \A run \in ArrRuns :
        LET rows == run.result.rows IN
        /\ \A i, j \in DOMAIN rows :
              i < j =>
                 /\ rows[i].total_arr >= rows[j].total_arr
                 /\ rows[i].total_arr = rows[j].total_arr
                       => FirstSeen(run, rows[i]) < FirstSeen(run, rows[j])
        /\ \A i \in DOMAIN rows : rows[1].total_arr >= rows[i].total_arr

\* Two accounts of which the one seen second has the greater total_arr: its
\* row comes first, live and in the snapshot taken.
C23_Witness ==
    /\ eod_snapshots # {}
    /\ \A run \in ArrRuns :
          /\ Len(run.result.rows) = 2
          /\ run.result.rows[1].total_arr > run.result.rows[2].total_arr
          /\ FirstSeen(run, run.result.rows[1]) > FirstSeen(run, run.result.rows[2])

\* The close date of an opportunity of the run, NoneDate when it has none.
CloseOf(run, o) ==
    IF run.basis = "live" THEN o.close_date
    ELSE IF o.close_date = NoneStr \/ o.close_date = <<>> THEN NoneDate
    ELSE date_fromisoformat(o.close_date)

\* The close dates of the open renewal opportunities of the account.
CloseDatesOf(run, account_id) ==
    {CloseOf(run, run.opportunities[i]) :
        i \in {k \in DOMAIN run.opportunities :
                  /\ IsOpenRenewal(run.opportunities[k])
                  /\ run.opportunities[k].account_id = account_id}} \ {NoneDate}

\* C24: in every row, subscription_end_date is the latest close date among the
\* open renewal opportunities of the row's account that have a close date,
\* and None exactly when none of them has one.
C24_EndDateIsLatestClose ==
    \A run \in ArrRuns :
        \A i \in DOMAIN run.result.rows :
            LET row == run.result.rows[i]
                dates == CloseDatesOf(run, row.account_id)
            IN  IF dates = {} THEN row.subscription_end_date = NoneStr
                ELSE \E d \in dates :
                        /\ \A e \in dates : ~DateAfter(e, d)
                        /\ row.subscription_end_date = isoformat(d)

\* The segment the claim gives a row of the account id: the stored segment
\* trimmed, the default label when it is empty or no account record has the id.
ExpectedSegment(accs, account_id) ==
    LET stored == {strip(OrEmpty(accs[i].segment)) :
                      i \in {k \in DOMAIN accs : accs[k].sf_id = account_id}} \ {<<>>}
    IN IF stored = {} THEN DEFAULT_SEGMENT ELSE CHOOSE seg \in stored : TRUE

\* C25: every row of a result, live or from a snapshot, has a non-empty
\* segment, the account's stored segment trimmed or the default label 'SMB/ MM'
\* (also when no account record has the row's account id), and every account
\* id with a counted line item has a row.
C25_SegmentNeverEmpty ==
    \A run \in ArrRuns :
        /\ \A i \in DOMAIN run.result.rows :
              /\ run.result.rows[i].segment # NoneStr
              /\ run.result.rows[i].segment # <<>>
              /\ run.result.rows[i].segment
                    = ExpectedSegment(run.accounts, run.result.rows[i].account_id)
        /\ \A k \in DOMAIN run.renewals :
              LET row == [account_id |-> run.renewals[k].account_id,
                          account_name |-> IF Truthy(run.renewals[k].account_name)
                                           THEN run.renewals[k].account_name ELSE EM_DASH]
              IN CountedFor(run, row) # {} =>
                    \E i \in DOMAIN run.result.rows :
                       run.result.rows[i].account_id = row.account_id

\* C26: when the input has no open renewal opportunity, the result, live and
\* from a snapshot, lists the eight canonical columns followed by 'Other', has
\* no rows, a grand total of zero and no total that is not zero.
C26_NoRenewalsGivesZeroResult ==
    \A run \in ArrRuns :
        (\A k \in DOMAIN run.opportunities : ~IsOpenRenewal(run.opportunities[k]))
            => /\ run.result.products = ARR_PRODUCT_COLUMNS \o <<"Other">>
               /\ Len(run.result.products) = 9
               /\ run.result.rows = <<>>
               /\ run.result.grand_total = 0
               /\ \A c \in Range(PRODUCTS) : GetOr0(run.result.total_by_product, c) = 0

\* The summed total_price of the line items of the row's account that the
\* exclusion list does not match and that fall in no canonical column, those
\* with an empty or absent product name included.
OtherMrr(run, row) ==
    SumSeq(LET counted == SelectSeq(run.line_items, LAMBDA li :
                   /\ \E k \in DOMAIN run.renewals :
                         /\ run.renewals[k].sf_id = li.opportunity_sf_id
                         /\ run.renewals[k].account_id = row.account_id
                         /\ (IF Truthy(run.renewals[k].account_name)
                             THEN run.renewals[k].account_name ELSE EM_DASH)
                               = row.account_name
                   /\ ~IsExcluded(li.product_name)
                   /\ ~IsExcluded(NormalizedName(li.product_name))
                   /\ ColumnOf(li.product_name) = "Other")
           IN [i \in DOMAIN counted |-> counted[i].total_price])

\* C27: a line item on a renewal the aggregation counts whose product name
\* is empty or absent is counted: its account has a row whose 'Other' cell is
\* 12 times the total_price of the account's line items outside the canonical
\* columns, that one included, and the cell is part of total_arr and
\* grand_total.
C27_EmptyNameCountsAsOther ==
    \A run \in ArrRuns :
        \A i \in DOMAIN run.line_items : \A k \in DOMAIN run.renewals :
            (/\ run.renewals[k].sf_id = run.line_items[i].opportunity_sf_id
             /\ NormalizedName(run.line_items[i].product_name) = <<>>)
            => LET row == [account_id |-> run.renewals[k].account_id,
                           account_name |-> IF Truthy(run.renewals[k].account_name)
                                            THEN run.renewals[k].account_name
                                            ELSE EM_DASH]
               IN \E j \in DOMAIN run.result.rows :
                     /\ run.result.rows[j].account_id = row.account_id
                     /\ run.result.rows[j].account_name = row.account_name
                     /\ run.result.rows[j].by_product["Other"]
                           = round2(12 * OtherMrr(run, row))
                     /\ run.result.rows[j].total_arr
                           >= run.result.rows[j].by_product["Other"]
                     /\ run.result.grand_total >= run.result.rows[j].total_arr

\* C30: an aggregation result has no two rows with the same account_id.
C30_OneRowPerAccountId ==
    \A run \in ArrRuns :
        \A i, j \in DOMAIN run.result.rows :
            run.result.rows[i].account_id = run.result.rows[j].account_id => i = j

----------------------------------------------------------------------------
(* Claim C29: the three live ARR figures *)

\* Lines 774-781 and 897-903: the sf_ids of the open renewal opportunities.
renewal_sf_ids(opps) ==
    {live_renewal_opps(opps)[i].sf_id : i \in DOMAIN live_renewal_opps(opps)}

\* Lines 786-794 and 907-915: the line items of the renewal opportunities
\* that pass the exclusion test on the normalized product name.
kpi_counted_lines(opps, lines) ==
    SelectSeq(lines, LAMBDA li :
        /\ li.opportunity_sf_id \in renewal_sf_ids(opps)
        /\ ~IsExcluded(NormalizedName(li.product_name)))

\* GET /api/dashboard-kpi: arr = mrr * ARR_MULTIPLIER, not rounded.
get_dashboard_kpi(opps, lines) ==
    LET counted == kpi_counted_lines(opps, lines)
    IN [arr |-> SumSeq([i \in DOMAIN counted |-> counted[i].total_price])
                    * ARR_MULTIPLIER]

\* Lines 905-915: opp_to_total[opp_sf_id], 0 for an opportunity without
\* counted lines.
opp_to_total(opps, lines, sf_id) ==
    LET counted == SelectSeq(kpi_counted_lines(opps, lines),
                             LAMBDA li : li.opportunity_sf_id = sf_id)
    IN SumSeq([i \in DOMAIN counted |-> counted[i].total_price])

\* Lines 918-925: (count, mrr) per (account_id, account_name or None), in
\* the order the keys are first seen.
RECURSIVE by_account(_, _, _, _)
by_account(renewal_opps, opps, lines, grouped) ==
    IF renewal_opps = <<>> THEN grouped
    ELSE LET o == Head(renewal_opps)
             key == AccountKey(o)
             line_total == opp_to_total(opps, lines, o.sf_id)
             had == IF DictHas(grouped, key) THEN DictGet(grouped, key)
                    ELSE [cnt |-> 0, mrr |-> 0]
         IN by_account(Tail(renewal_opps), opps, lines,
                       DictSet(grouped, key,
                               [cnt |-> had.cnt + 1, mrr |-> had.mrr + line_total]))

\* rows.sort(key=lambda x: -x["arr"]): a stable sort, largest arr first.
RECURSIVE InsertAccount(_, _)
InsertAccount(sorted, row) ==
    IF sorted = <<>> THEN <<row>>
    ELSE IF Head(sorted).arr < row.arr THEN <<row>> \o sorted
    ELSE <<Head(sorted)>> \o InsertAccount(Tail(sorted), row)

RECURSIVE SortAccounts(_)
SortAccounts(rows) ==
    IF rows = <<>> THEN <<>>
    ELSE InsertAccount(SortAccounts(SubSeq(rows, 1, Len(rows) - 1)), rows[Len(rows)])

\* GET /api/dashboard-kpi/arr-by-account (lines 890-934).
get_arr_by_account(opps, lines) ==
    LET grouped == by_account(live_renewal_opps(opps), opps, lines, <<>>)
        rows == [i \in DOMAIN grouped |->
                    [account_id |-> grouped[i].key[1],
                     account_name |-> IF Truthy(grouped[i].key[2])
                                      THEN grouped[i].key[2] ELSE EM_DASH,
                     open_renewal_count |-> grouped[i].value.cnt,
                     arr |-> round2(grouped[i].value.mrr * ARR_MULTIPLIER)]]
    IN [accounts |-> SortAccounts(rows),
        total_arr |-> round2(SumSeq([i \in DOMAIN rows |-> rows[i].arr]))]

\* C29: the dashboard KPI arr, the total_arr of the ARR-by-account listing
\* and the grand_total of the ARR-by-account-product table are the same
\* amount for the store.
C29_LiveArrFiguresAgree ==
    /\ get_dashboard_kpi(opportunities, line_items).arr
          = get_arr_by_account(opportunities, line_items).total_arr
    /\ get_arr_by_account(opportunities, line_items).total_arr
          = LiveArr.grand_total

\* C28: the snapshot a poll of the loop takes for the local date D of the
\* poll is stored under the date key D, and once the loop has marked D as
\* snapshotted a snapshot with the date key D exists.
C28_SnapshotStoredUnderPollDate ==
    /\ last_poll.eod = "ok"
          => \E s \in eod_snapshots : s.snapshot_date = today_est(last_poll.at)
    /\ last_eod_date # NoneDate
          => \E s \in eod_snapshots : s.snapshot_date = last_eod_date

----------------------------------------------------------------------------
(* Claims C21 and C22: the copilot always answers; the ARR-delta answer *)

\* C21: every request to the copilot is answered by a response of one of the
\* five intents, whatever the store and the snapshots hold, and a question
\* that satisfies the trigger of no intent gets the fallback help message
\* with no sources.
C21_AlwaysAnswered ==
    IsCopilotResponse =>
        /\ response.answer.intent \in Range(IntentOrder)
        /\ \A i \in DOMAIN response.sources :
              \/ response.sources[i] \in {LIVE_LABEL, NO_SNAPSHOT_LABEL}
              \/ \E s \in eod_snapshots : response.sources[i] = snapshot_label(s.snapshot_date)
        /\ SatisfiedIntents(AskedQuestion) = {"fallback"}
              => /\ response.answer = [intent |-> "fallback"]
                 /\ response.sources = <<>>

\* 'hello' asked of a store with no opportunities and no snapshots got the
\* fallback message.
C21_Witness ==
    /\ IsCopilotResponse
    /\ AskedQuestion = <<"h","e","l","l","o">>
    /\ SatisfiedIntents(AskedQuestion) = {"fallback"}
    /\ opportunities = <<>>
    /\ eod_snapshots = {}
    /\ response.answer = [intent |-> "fallback"]

\* The stored snapshots dated strictly before today.
EarlierSnapshots == {s \in eod_snapshots : DateAfter(today_est(now), s.snapshot_date)}

\* C22: the ARR-delta answer compares the live grand total with the grand
\* total of the snapshot with the greatest date key strictly before today:
\* 'up' exactly when the live total is greater, 'down' exactly when it is
\* lower, 'unchanged' exactly when they are equal.  With no snapshot dated
\* before today it reports the live total alone.
C22_DeltaAgainstLatestEarlierSnapshot ==
    (IsCopilotResponse /\ AnsweredIntent = "delta") =>
        /\ response.answer.current = format_dollars(LiveArr.grand_total)
        /\ IF EarlierSnapshots = {}
           THEN /\ ~response.answer.compared
                /\ response.sources = <<LIVE_LABEL>>
           ELSE LET snap == CHOOSE s \in EarlierSnapshots :
                                \A t \in EarlierSnapshots :
                                    ~DateAfter(t.snapshot_date, s.snapshot_date)
                    prev == arr_from_snapshot_payload(snap.data_json).grand_total
                IN /\ response.answer.compared
                   /\ response.answer.snapshot_date = isoformat(snap.snapshot_date)
                   /\ response.answer.previous = format_dollars(prev)
                   /\ response.answer.change = "up" <=> LiveArr.grand_total > prev
                   /\ response.answer.change = "down" <=> LiveArr.grand_total < prev
                   /\ response.answer.change = "unchanged" <=> LiveArr.grand_total = prev
                   /\ response.sources = <<LIVE_LABEL, snapshot_label(snap.snapshot_date)>>

\* The delta question asked with a snapshot of today and an earlier one
\* stored: the answer compares with the earlier one and reports 'up'.
C22_Witness ==
    /\ IsCopilotResponse
    /\ AnsweredIntent = "delta"
    /\ \E s \in eod_snapshots : s.snapshot_date = today_est(now)
    /\ EarlierSnapshots # {}
    /\ response.answer.compared
    /\ response.answer.change = "up"
    /\ response.answer.snapshot_date # isoformat(today_est(now))

====
